---- MODULE Spec2Model ----
(***************************************************************************)
(* A model of the Google-Maps lead scraper: the lead classifier            *)
(* (data_filter.py, BusinessFilter), the integrated workflow               *)
(* (lead_scraper.py, LeadScraper) and the session manager (scraper.py,     *)
(* GoogleMapsScraper).                                                     *)
(*                                                                         *)
(* Text is modelled by TLA+ strings, character by character: TLC's Len,    *)
(* SubSeq, Head, Tail and \o act on strings as Python's len, slicing and + *)
(* do, so the substring tests, str.lower, str.strip, urlparse and the      *)
(* regular expressions of the classifier are computed, not tabulated.      *)
(***************************************************************************)
EXTENDS Integers, Sequences, FiniteSets, TLC

(***************************************************************************)
(* Python's str and list primitives                                        *)
(***************************************************************************)

\* s[i-1:j] of Python (1-based, inclusive here), clipped to the string.
Slice(s, i, j) ==
    IF i > Len(s) \/ j < i THEN ""
    ELSE SubSeq(s, i, IF j > Len(s) THEN Len(s) ELSE j)

\* s[i-1] of Python, "" past either end.
At(s, i) == IF i >= 1 /\ i <= Len(s) THEN SubSeq(s, i, i) ELSE ""

\* needle in hay
Contains(needle, hay) ==
    \E i \in 1..(Len(hay) - Len(needle) + 1) :
        SubSeq(hay, i, i + Len(needle) - 1) = needle

\* s.startswith(p)
StartsWith(s, p) == Len(s) >= Len(p) /\ SubSeq(s, 1, Len(p)) = p

\* any(x in hay for x in needles), needles a list
AnyIn(needles, hay) == \E k \in 1..Len(needles) : Contains(needles[k], hay)

Whitespace == {" ", "\t", "\n", "\r"}

RECURSIVE LStrip(_)
LStrip(s) == IF s # "" /\ Head(s) \in Whitespace THEN LStrip(Tail(s)) ELSE s

RECURSIVE RStrip(_)
RStrip(s) ==
    IF s # "" /\ At(s, Len(s)) \in Whitespace
    THEN RStrip(SubSeq(s, 1, Len(s) - 1))
    ELSE s

\* s.strip()
Strip(s) == RStrip(LStrip(s))

UpperCase == "ABCDEFGHIJKLMNOPQRSTUVWXYZ"
LowerCase == "abcdefghijklmnopqrstuvwxyz"

LowerOf == [c \in {At(UpperCase, i) : i \in 1..Len(UpperCase)} |->
               At(LowerCase, CHOOSE i \in 1..Len(UpperCase) : At(UpperCase, i) = c)]

LowerChar(c) == IF c \in DOMAIN LowerOf THEN LowerOf[c] ELSE c

\* s.lower()
RECURSIVE Lower(_)
Lower(s) == IF s = "" THEN "" ELSE LowerChar(Head(s)) \o Lower(Tail(s))

\* s.replace(old, new), old non-empty
RECURSIVE Replace(_, _, _)
Replace(s, old, new) ==
    IF s = "" THEN ""
    ELSE IF StartsWith(s, old)
         THEN new \o Replace(Slice(s, Len(old) + 1, Len(s)), old, new)
         ELSE Head(s) \o Replace(Tail(s), old, new)

\* sep.join(list)
RECURSIVE Join(_, _)
Join(sep, list) ==
    IF Len(list) = 0 THEN ""
    ELSE IF Len(list) = 1 THEN list[1]
    ELSE list[1] \o sep \o Join(sep, Tail(list))

\* list[:n]
Take(list, n) == SubSeq(list, 1, IF Len(list) < n THEN Len(list) ELSE n)

\* d[key]: the subscript, which raises KeyError when d lacks the key; the
\* exception stands where the value would
GetSubscript(d, key, default) == IF key \in DOMAIN d THEN d[key] ELSE "KeyError"

\* dict.get(key, default)
Get(d, key, default) == IF key \in DOMAIN d THEN d[key] ELSE default

\* dict.update(u): a copy of d with u's items set
Update(d, u) ==
    [k \in DOMAIN d \cup DOMAIN u |-> IF k \in DOMAIN u THEN u[k] ELSE d[k]]

\* Python truthiness of a str
Truthy(s) == s # ""

(***************************************************************************)
(* The regular expressions of data_filter.py                               *)
(***************************************************************************)

CharsOf(s) == {At(s, i) : i \in 1..Len(s)}

\* [a-zA-Z0-9_.], the class every instagram pattern captures
HandleChars == CharsOf(LowerCase) \cup CharsOf(UpperCase) \cup CharsOf("0123456789_.")

\* \w of re, on ASCII text
WChars == CharsOf(LowerCase) \cup CharsOf(UpperCase) \cup CharsOf("0123456789_")

\* The last index of the longest run of characters of `chars` that starts at
\* p (p - 1 when s[p] is not one): a greedy [chars]* from p.
RECURSIVE RunEnd(_, _, _)
RunEnd(s, p, chars) ==
    IF At(s, p) \in chars THEN RunEnd(s, p + 1, chars) ELSE p - 1

SetMin(S) == CHOOSE x \in S : \A y \in S : x <= y
SetMax(S) == CHOOSE x \in S : \A y \in S : x >= y

\* One instagram pattern is  lit :? \s* @? ([a-zA-Z0-9_.]+)  with the optional
\* parts present per pattern (colon, ws, at), or  lit .*? @ ([a-zA-Z0-9_.]+)
\* (lazy). re.IGNORECASE: the literal is compared case-insensitively.
LitAt(pat, s, p) ==
    /\ LowerChar(At(s, p)) = Head(pat.lit)
    /\ Lower(Slice(s, p, p + Len(pat.lit) - 1)) = pat.lit

\* ".*?@" from index a: the index after the nearest "@" that a handle
\* follows, on the same line; 0 when there is none.
HandleAts(s, a) ==
    {q \in a..Len(s) :
        /\ At(s, q) = "@"
        /\ At(s, q + 1) \in HandleChars
        /\ ~Contains("\n", Slice(s, a, q - 1))}

AfterLazyAt(ats) == IF ats = {} THEN 0 ELSE SetMin(ats) + 1

\* ":?", "\s*" and "@?" from index a: the index after them. None of ":",
\* whitespace and "@" is a handle character, so these greedy optional parts
\* never have to give anything back.
AfterColon(pat, s, a) == IF pat.colon /\ At(s, a) = ":" THEN a + 1 ELSE a
AfterSpace(pat, s, b) == IF pat.ws THEN RunEnd(s, b, Whitespace) + 1 ELSE b
AfterAt(pat, s, c) == IF pat.at /\ At(s, c) = "@" THEN c + 1 ELSE c

\* Where the capture starts when the literal is at p (0: no match at p).
CaptureStart(pat, s, p) ==
    IF pat.lazy
    THEN AfterLazyAt(HandleAts(s, p + Len(pat.lit)))
    ELSE AfterAt(pat, s, AfterSpace(pat, s, AfterColon(pat, s, p + Len(pat.lit))))

Captured(s, cs) ==
    IF cs > 0 /\ At(s, cs) \in HandleChars
    THEN [ok |-> TRUE, cs |-> cs, ce |-> RunEnd(s, cs, HandleChars)]
    ELSE [ok |-> FALSE, cs |-> 0, ce |-> 0]

\* An attempt to match `pat` at index p of s: whether it matches, and the
\* capture's first and last index (the match ends with the capture).
MatchAt(pat, s, p) ==
    IF LitAt(pat, s, p) THEN Captured(s, CaptureStart(pat, s, p))
    ELSE [ok |-> FALSE, cs |-> 0, ce |-> 0]

\* pattern.findall(s): the captures of the non-overlapping matches, left to
\* right, the scan resuming where a match ended.
RECURSIVE FindAllFrom(_, _, _)
RECURSIVE FindAllStep(_, _, _, _)
FindAllStep(pat, s, p, m) ==
    IF m.ok
    THEN <<Slice(s, m.cs, m.ce)>> \o FindAllFrom(pat, s, m.ce + 1)
    ELSE FindAllFrom(pat, s, p + 1)

FindAllFrom(pat, s, p) ==
    IF p > Len(s) THEN <<>> ELSE FindAllStep(pat, s, p, MatchAt(pat, s, p))

FindAll(pat, s) == FindAllFrom(pat, s, 1)

\* re.findall(r'([\w.-]+\.squarespace\.com)', s): a greedy run of [\w.-] that
\* gives back until ".squarespace.com" ends the match.
SquarespaceSuffix == ".squarespace.com"
SquarespaceRun == WChars \cup {".", "-"}

\* The indices in p+1 .. e at which the suffix stands and ends within the run.
SuffixStarts(s, p, e) ==
    {q \in (p + 1)..(e - Len(SquarespaceSuffix) + 1) :
        Slice(s, q, q + Len(SquarespaceSuffix) - 1) = SquarespaceSuffix}

RECURSIVE FindSquarespaceLinksFrom(_, _)
RECURSIVE FindSquarespaceLinksStep(_, _, _)
FindSquarespaceLinksStep(s, p, qs) ==
    IF qs # {}
    THEN <<Slice(s, p, SetMax(qs) + Len(SquarespaceSuffix) - 1)>>
             \o FindSquarespaceLinksFrom(s, SetMax(qs) + Len(SquarespaceSuffix))
    ELSE FindSquarespaceLinksFrom(s, p + 1)

FindSquarespaceLinksFrom(s, p) ==
    IF p > Len(s) THEN <<>>
    ELSE FindSquarespaceLinksStep(s, p, SuffixStarts(s, p, RunEnd(s, p, SquarespaceRun)))

\* re.findall(r'(booksy\.com/[\w/.-]+)', s)
BooksyPrefix == "booksy.com/"
BooksyRun == WChars \cup {"/", ".", "-"}

RECURSIVE FindBooksyLinksFrom(_, _)
RECURSIVE FindBooksyLinksStep(_, _, _)
FindBooksyLinksStep(s, p, e) ==
    IF Slice(s, p, p + Len(BooksyPrefix) - 1) = BooksyPrefix /\ e >= p + Len(BooksyPrefix)
    THEN <<Slice(s, p, e)>> \o FindBooksyLinksFrom(s, e + 1)
    ELSE FindBooksyLinksFrom(s, p + 1)

FindBooksyLinksFrom(s, p) ==
    IF p > Len(s) THEN <<>>
    ELSE FindBooksyLinksStep(s, p, RunEnd(s, p + Len(BooksyPrefix), BooksyRun))

(***************************************************************************)
(* BusinessFilter (data_filter.py)                                         *)
(***************************************************************************)

Pat(lit, colon, ws, at, lazy) ==
    [lit |-> lit, colon |-> colon, ws |-> ws, at |-> at, lazy |-> lazy]

\* BusinessFilter.__init__: the attributes of a new instance. booking_platforms
\* is a dict, kept as the list of its items in insertion order.
BusinessFilter_init ==
    [social_domains |->
        <<"instagram.com", "facebook.com", "twitter.com", "tiktok.com",
          "linkedin.com", "youtube.com", "snapchat.com", "pinterest.com">>,
     booking_platforms |->
        <<[platform |-> "squarespace",
           domains |-> <<"squarespace.com", "static1.squarespace.com", "squareup.com">>],
          [platform |-> "booksy", domains |-> <<"booksy.com", "booksy.biz">>],
          [platform |-> "acuity", domains |-> <<"acuityscheduling.com">>],
          [platform |-> "schedulicity", domains |-> <<"schedulicity.com">>],
          [platform |-> "vagaro", domains |-> <<"vagaro.com">>],
          [platform |-> "styleseat", domains |-> <<"styleseat.com">>]>>,
     google_domains |->
        <<"google.com", "maps.google.com", "googleusercontent.com",
          "gstatic.com", "googleapis.com">>,
     instagram_patterns |->
        <<Pat("@", FALSE, FALSE, FALSE, FALSE),                \* @([a-zA-Z0-9_.]+)
          Pat("instagram.com/", FALSE, FALSE, FALSE, FALSE),   \* instagram\.com/(...)
          Pat("ig", TRUE, TRUE, FALSE, FALSE),                 \* ig:?\s*(...)
          Pat("follow", FALSE, FALSE, FALSE, TRUE),            \* follow.*?@(...)
          Pat("insta", TRUE, TRUE, TRUE, FALSE),               \* insta:?\s*@?(...)
          Pat("check", FALSE, FALSE, FALSE, TRUE),             \* check.*?@(...)
          Pat("find", FALSE, FALSE, FALSE, TRUE),              \* find.*?@(...)
          Pat("visit", FALSE, FALSE, FALSE, TRUE),             \* visit.*?@(...)
          Pat("see", FALSE, FALSE, FALSE, TRUE),               \* see.*?@(...)
          Pat("on instagram", TRUE, TRUE, TRUE, FALSE)>>,      \* on instagram:?\s*@?(...)
     booking_keywords |->
        [squarespace |-> <<"squarespace", "square space", "book online">>,
         booksy |-> <<"booksy", "book with booksy">>,
         general |-> <<"book appointment", "schedule online", "online booking",
                       "appointment booking">>]]

\* urlparse(url).netloc of a URL that starts with http:// or https://: what
\* follows "//" up to the first of "/", "?" and "#".
RECURSIVE UntilDelim(_)
UntilDelim(s) ==
    IF s = "" \/ Head(s) \in {"/", "?", "#"} THEN ""
    ELSE Head(s) \o UntilDelim(Tail(s))

urlparse_netloc(url) ==
    UntilDelim(Slice(url, (IF StartsWith(url, "https://") THEN 8 ELSE 7) + 1, Len(url)))

\* urlsplit raises ValueError("Invalid IPv6 URL") on an unbalanced bracket.
urlparse_raises(url) ==
    LET netloc == urlparse_netloc(url)
    IN  Contains("[", netloc) # Contains("]", netloc)

\* The platform of the first booking_platforms item one of whose domains is in
\* `domain`, "" when there is none.
RECURSIVE FirstPlatform(_, _)
FirstPlatform(platforms, domain) ==
    IF Len(platforms) = 0 THEN ""
    ELSE IF AnyIn(platforms[1].domains, domain) THEN platforms[1].platform
    ELSE FirstPlatform(Tail(platforms), domain)

\* _analyze_website: the result dict as first built
WebsiteResult ==
    [has_real_website |-> FALSE, website_type |-> "none",
     instagram_found |-> FALSE, instagram_links |-> <<>>,
     squarespace_found |-> FALSE, squarespace_links |-> <<>>,
     booksy_found |-> FALSE, booksy_links |-> <<>>,
     other_booking_found |-> FALSE, other_booking_links |-> <<>>]

\* _analyze_website: website.strip().lower(), 'https://' put before it unless
\* it starts with 'http://' or 'https://'
WithScheme(lowered) ==
    IF StartsWith(lowered, "http://") \/ StartsWith(lowered, "https://")
    THEN lowered ELSE "https://" \o lowered

NormalizeWebsite(website) == WithScheme(Lower(Strip(website)))

\* _analyze_website: urlparse(website).netloc.lower().replace('www.', '')
DomainOf(website) == Replace(Lower(urlparse_netloc(website)), "www.", "")

\* BookingResult with the platform's own name as the website type
BookingResultPlatformName(platform, website) ==
    IF platform = "squarespace"
    THEN [WebsiteResult EXCEPT !.website_type = platform,
                               !.squarespace_found = TRUE,
                               !.squarespace_links = <<website>>]
    ELSE IF platform = "booksy"
    THEN [WebsiteResult EXCEPT !.website_type = platform,
                               !.booksy_found = TRUE,
                               !.booksy_links = <<website>>]
    ELSE [WebsiteResult EXCEPT !.website_type = platform,
                               !.other_booking_found = TRUE,
                               !.other_booking_links = <<website>>]

\* BookingResult whose last branch sets no flag
BookingResultOtherUnflagged(platform, website) ==
    IF platform = "squarespace"
    THEN [WebsiteResult EXCEPT !.website_type = platform \o "_booking",
                               !.squarespace_found = TRUE,
                               !.squarespace_links = <<website>>]
    ELSE IF platform = "booksy"
    THEN [WebsiteResult EXCEPT !.website_type = platform \o "_booking",
                               !.booksy_found = TRUE,
                               !.booksy_links = <<website>>]
    ELSE [WebsiteResult EXCEPT !.website_type = platform \o "_booking"]

\* _analyze_website: the booking platform's branch
BookingResult(platform, website) ==
    IF platform = "squarespace"
    THEN [WebsiteResult EXCEPT !.website_type = platform \o "_booking",
                               !.squarespace_found = TRUE,
                               !.squarespace_links = <<website>>]
    ELSE IF platform = "booksy"
    THEN [WebsiteResult EXCEPT !.website_type = platform \o "_booking",
                               !.booksy_found = TRUE,
                               !.booksy_links = <<website>>]
    ELSE [WebsiteResult EXCEPT !.website_type = platform \o "_booking",
                               !.other_booking_found = TRUE,
                               !.other_booking_links = <<website>>]

\* _analyze_website: the Google/Maps, Instagram and social media branches
GoogleResult == [WebsiteResult EXCEPT !.website_type = "google"]

InstagramResult(website) ==
    [WebsiteResult EXCEPT !.website_type = "instagram",
                          !.instagram_found = TRUE,
                          !.instagram_links = <<website>>]

SocialMediaResult == [WebsiteResult EXCEPT !.website_type = "social_media"]

\* RealWebsiteResult with has_real_website left as first built
RealWebsiteTypeOnly == [WebsiteResult EXCEPT !.website_type = "real_website"]

\* _analyze_website: "If we get here, it's likely a real website"
RealWebsiteResult ==
    [WebsiteResult EXCEPT !.has_real_website = TRUE,
                          !.website_type = "real_website"]

\* _analyze_website: the checks on the domain, in the code's order
ClassifyDomain(self, website, domain) ==
    IF AnyIn(self.google_domains, domain) THEN GoogleResult
    ELSE IF AnyIn(<<"instagram.com", "instagr.am", "ig.me">>, domain)
    THEN InstagramResult(website)
    ELSE IF AnyIn(self.social_domains, domain) THEN SocialMediaResult
    ELSE IF FirstPlatform(self.booking_platforms, domain) # ""
    THEN BookingResult(FirstPlatform(self.booking_platforms, domain), website)
    ELSE RealWebsiteResult

\* _analyze_website: from the normalized website on; urlparse raising returns
\* the result as first built
AnalyzeNormalized(self, website) ==
    IF urlparse_raises(website) THEN WebsiteResult
    ELSE ClassifyDomain(self, website, DomainOf(website))

\* BusinessFilter._analyze_website
_analyze_website(self, website) ==
    IF ~Truthy(website) \/ Strip(website) = "" THEN WebsiteResult
    ELSE AnalyzeNormalized(self, NormalizeWebsite(website))

\* list.extend over a list of lists: their concatenation
RECURSIVE Concat(_)
Concat(lists) == IF Len(lists) = 0 THEN <<>> ELSE lists[1] \o Concat(Tail(lists))

\* _analyze_description: the result dict as first built
DescriptionResult ==
    [instagram_found |-> FALSE, instagram_links |-> <<>>,
     squarespace_found |-> FALSE, squarespace_links |-> <<>>,
     booksy_found |-> FALSE, booksy_links |-> <<>>,
     other_booking_found |-> FALSE, other_booking_links |-> <<>>]

\* pattern.findall(text) for each of the instagram patterns, in order
InstagramMatches(patterns, text) ==
    [k \in 1..Len(patterns) |-> FindAll(patterns[k], text)]

\* _analyze_description: "if match and len(match) > 2", and the link appended
ValidUsername(match) == Truthy(match) /\ Len(match) > 2

UsernameLinks(valid) == [j \in 1..Len(valid) |-> "instagram.com/" \o valid[j]]

InstagramLinks(matches) ==
    Concat([k \in 1..Len(matches) |-> UsernameLinks(SelectSeq(matches[k], ValidUsername))])

\* _analyze_description: from the lowered description on
ScanDescription(self, description, matches) ==
    [DescriptionResult EXCEPT
        !.instagram_found = \E k \in 1..Len(matches) : Len(matches[k]) > 0,
        !.instagram_links = InstagramLinks(matches),
        !.squarespace_found = AnyIn(self.booking_keywords.squarespace, description),
        !.squarespace_links =
            IF AnyIn(self.booking_keywords.squarespace, description)
            THEN FindSquarespaceLinksFrom(description, 1) ELSE <<>>,
        !.booksy_found = AnyIn(self.booking_keywords.booksy, description),
        !.booksy_links =
            IF AnyIn(self.booking_keywords.booksy, description)
            THEN FindBooksyLinksFrom(description, 1) ELSE <<>>,
        !.other_booking_found = AnyIn(self.booking_keywords.general, description)]

ScanLowered(self, description) ==
    ScanDescription(self, description,
                    InstagramMatches(self.instagram_patterns, description))

\* BusinessFilter._analyze_description
_analyze_description(self, description) ==
    IF ~Truthy(description) THEN DescriptionResult
    ELSE ScanLowered(self, Lower(description))

\* fields_to_check of the three _comprehensive_* detections, each value as
\* str(field_value).lower(), the falsy ones skipped
LowerAll(values) == [k \in 1..Len(values) |-> Lower(values[k])]

FieldsToCheck(business) ==
    LowerAll(SelectSeq(<<Get(business, "website", ""),
                         Get(business, "description", ""),
                         Get(business, "name", ""),
                         Get(business, "address", "")>>, Truthy))

\* _comprehensive_instagram_detection: the two tests on a field's value
HasInstagramUrl(field_value) ==
    Contains("instagram.com", field_value) \/ Contains("instagr.am", field_value)

HasInstagramHandle(patterns, field_value) ==
    \E k \in 1..Len(patterns) : Len(FindAll(patterns[k], field_value)) > 0

InstagramIn(self, fields) ==
    [instagram_found |->
        \E k \in 1..Len(fields) :
            \/ HasInstagramUrl(fields[k])
            \/ HasInstagramHandle(self.instagram_patterns, fields[k]),
     instagram_links |-> SelectSeq(fields, HasInstagramUrl)]

\* BusinessFilter._comprehensive_instagram_detection (instagram_handles, which
\* analyze_business never reads, is left out)
_comprehensive_instagram_detection(self, business) ==
    InstagramIn(self, FieldsToCheck(business))

\* _comprehensive_squarespace_detection: the two tests on a field's value
HasSquarespaceDomain(field_value) ==
    AnyIn(<<"squarespace.com", "squarespace.net", "squarespace.org",
            "squarespace.io", "squarespace.co", "squarespace.me",
            "squarespace.app", "squarespace.dev", "squarespace.test",
            "squarespace.local", "static1.squarespace.com">>, field_value)

HasSquarespaceIndicator(field_value) ==
    AnyIn(<<"squarespace", "square space", "book online", "online booking",
            "powered by squarespace", "squarespace.com", "schedule online",
            "appointment booking", "book appointment online">>, field_value)

SquarespaceIn(fields) ==
    [squarespace_found |->
        \E k \in 1..Len(fields) :
            HasSquarespaceDomain(fields[k]) \/ HasSquarespaceIndicator(fields[k]),
     squarespace_links |-> SelectSeq(fields, HasSquarespaceDomain)]

\* BusinessFilter._comprehensive_squarespace_detection
_comprehensive_squarespace_detection(self, business) ==
    SquarespaceIn(FieldsToCheck(business))

\* _comprehensive_booksy_detection: the two tests on a field's value
HasBooksyDomain(field_value) ==
    AnyIn(<<"booksy.com", "booksy.biz", "booksy.net", "booksy.org",
            "booksy.io", "booksy.co", "booksy.me", "booksy.app">>, field_value)

HasBooksyIndicator(field_value) ==
    AnyIn(<<"booksy", "book with booksy", "booksy.com", "booksy app",
            "download booksy", "book on booksy", "booksy booking",
            "book appointment", "schedule appointment", "book online">>, field_value)

BooksyIn(fields) ==
    [booksy_found |->
        \E k \in 1..Len(fields) :
            HasBooksyDomain(fields[k]) \/ HasBooksyIndicator(fields[k]),
     booksy_links |-> SelectSeq(fields, HasBooksyDomain)]

\* BusinessFilter._comprehensive_booksy_detection
_comprehensive_booksy_detection(self, business) ==
    BooksyIn(FieldsToCheck(business))

\* _determine_qualification: the notes of the booking-platform branch
BookingNotes(analysis) ==
    (IF analysis.squarespace_found THEN <<"Squarespace booking">> ELSE <<>>)
    \o (IF analysis.booksy_found THEN <<"Booksy booking">> ELSE <<>>)
    \o (IF analysis.other_booking_found THEN <<"Other booking platform">> ELSE <<>>)

QualificationResult ==
    [is_qualified_lead |-> FALSE, qualification_reason |-> "", notes |-> ""]

\* _determine_qualification: "Disqualify if they have a real website"
RealWebsiteQualification(analysis) ==
    [QualificationResult EXCEPT
        !.qualification_reason = "Has established website",
        !.notes = "Real website found: " \o analysis.original_website]

\* SocialMediaQualification qualifying the record
SocialMediaQualified ==
    [QualificationResult EXCEPT
        !.is_qualified_lead = TRUE,
        !.qualification_reason = "Uses social media platform (non-Instagram)"]

\* _determine_qualification: "Disqualify if it's just social media"
SocialMediaQualification ==
    [QualificationResult EXCEPT
        !.qualification_reason = "Uses social media platform (non-Instagram)"]

\* NoPresenceQualification with is_qualified_lead left as first built
NoPresenceUnmarked ==
    [QualificationResult EXCEPT
        !.qualification_reason = "No online presence - prime candidate",
        !.notes = "Business has only phone/address listing"]

\* _determine_qualification: "QUALIFY: No website at all"
NoPresenceQualification ==
    [QualificationResult EXCEPT
        !.is_qualified_lead = TRUE,
        !.qualification_reason = "No online presence - prime candidate",
        !.notes = "Business has only phone/address listing"]

\* InstagramQualification with the social media rule's reason
InstagramQualificationAsSocial(analysis) ==
    [QualificationResult EXCEPT
        !.is_qualified_lead = TRUE,
        !.qualification_reason = "Uses social media platform",
        !.notes = IF Len(analysis.instagram_links) > 0
                  THEN "Instagram: " \o Join(", ", Take(analysis.instagram_links, 2))
                  ELSE ""]

\* _determine_qualification: "QUALIFY: Instagram-only presence"
InstagramQualification(analysis) ==
    [QualificationResult EXCEPT
        !.is_qualified_lead = TRUE,
        !.qualification_reason = "Instagram-only presence",
        !.notes = IF Len(analysis.instagram_links) > 0
                  THEN "Instagram: " \o Join(", ", Take(analysis.instagram_links, 2))
                  ELSE ""]

\* BookingQualification with is_qualified_lead left as first built
BookingQualificationUnmarked(analysis) ==
    [QualificationResult EXCEPT
        !.qualification_reason = "Uses booking platform instead of website",
        !.notes = Join(", ", BookingNotes(analysis))]

\* _determine_qualification: "QUALIFY: Uses booking platforms instead of real
\* website"
BookingQualification(analysis) ==
    [QualificationResult EXCEPT
        !.is_qualified_lead = TRUE,
        !.qualification_reason = "Uses booking platform instead of website",
        !.notes = Join(", ", BookingNotes(analysis))]

\* The result returned as first built, without a reason
DefaultUnexplained == QualificationResult

\* DefaultQualification qualifying the record
DefaultQualified ==
    [QualificationResult EXCEPT
        !.is_qualified_lead = TRUE,
        !.qualification_reason = "Has sufficient online presence"]

\* _determine_qualification: "Default: Not qualified"
DefaultQualification ==
    [QualificationResult EXCEPT
        !.qualification_reason = "Has sufficient online presence"]

\* BusinessFilter._determine_qualification: the first rule that applies
_determine_qualification(analysis) ==
    IF analysis.has_real_website THEN RealWebsiteQualification(analysis)
    ELSE IF analysis.website_type \in {"social_media"} /\ ~analysis.instagram_found
    THEN SocialMediaQualification
    ELSE IF analysis.website_type = "none" /\ ~analysis.instagram_found
    THEN NoPresenceQualification
    ELSE IF analysis.instagram_found /\ ~analysis.has_real_website
    THEN InstagramQualification(analysis)
    ELSE IF \/ analysis.squarespace_found
            \/ analysis.booksy_found
            \/ analysis.other_booking_found
    THEN BookingQualification(analysis)
    ELSE DefaultQualification

\* analyze_business: the analysis dict as first built
InitialAnalysis(business_data) ==
    [business_name |-> Get(business_data, "name", ""),
     phone |-> Get(business_data, "phone", ""),
     address |-> Get(business_data, "address", ""),
     original_website |-> Get(business_data, "website", ""),
     description |-> Get(business_data, "description", ""),
     url |-> Get(business_data, "url", ""),
     has_real_website |-> FALSE,
     website_type |-> "none",
     instagram_found |-> FALSE,
     instagram_links |-> <<>>,
     squarespace_found |-> FALSE,
     squarespace_links |-> <<>>,
     booksy_found |-> FALSE,
     booksy_links |-> <<>>,
     other_booking_found |-> FALSE,
     other_booking_links |-> <<>>,
     is_qualified_lead |-> FALSE,
     qualification_reason |-> "",
     notes |-> ""]

\* analyze_business: the description's findings and those of the three
\* comprehensive detections merged into the analysis
MergeDetections(analysis, description_analysis, instagram_analysis, squarespace_analysis, booksy_analysis) ==
    [analysis EXCEPT
        !.instagram_found =
            \/ @
            \/ description_analysis.instagram_found
            \/ instagram_analysis.instagram_found,
        !.squarespace_found =
            \/ @
            \/ description_analysis.squarespace_found
            \/ squarespace_analysis.squarespace_found,
        !.booksy_found =
            \/ @
            \/ description_analysis.booksy_found
            \/ booksy_analysis.booksy_found,
        !.instagram_links =
            @ \o description_analysis.instagram_links
              \o (IF instagram_analysis.instagram_found
                  THEN instagram_analysis.instagram_links ELSE <<>>),
        !.squarespace_links =
            @ \o description_analysis.squarespace_links
              \o (IF squarespace_analysis.squarespace_found
                  THEN squarespace_analysis.squarespace_links ELSE <<>>),
        !.booksy_links =
            @ \o description_analysis.booksy_links
              \o (IF booksy_analysis.booksy_found
                  THEN booksy_analysis.booksy_links ELSE <<>>)]

\* analyze_business: analysis.update(self._determine_qualification(analysis))
Qualify(analysis) == Update(analysis, _determine_qualification(analysis))

\* SelfAfterAnalyze with the website's domain remembered among social_domains
SelfRememberingDomain(self, business_data) ==
    IF \/ Strip(Get(business_data, "website", "")) = ""
       \/ urlparse_raises(NormalizeWebsite(Get(business_data, "website", "")))
    THEN self
    ELSE [self EXCEPT !.social_domains =
             Append(@, DomainOf(NormalizeWebsite(Get(business_data, "website", ""))))]

\* analyze_business: the BusinessFilter's attributes after the call. The method
\* and the five it calls assign no attribute of self and change none of its
\* lists; every list they append to is one built in that call.
SelfAfterAnalyze(self, business_data) == self

\* BusinessFilter.analyze_business
analyze_business(self, business_data) ==
    Qualify(MergeDetections(
        Update(InitialAnalysis(business_data),
               _analyze_website(self, Get(business_data, "website", ""))),
        _analyze_description(self, Get(business_data, "description", "")),
        _comprehensive_instagram_detection(self, business_data),
        _comprehensive_squarespace_detection(self, business_data),
        _comprehensive_booksy_detection(self, business_data)))

\* BusinessFilter._generate_statistics: the histograms are dicts, kept as
\* functions from the keys seen to their counts.
Count(list, key, value) ==
    Cardinality({k \in 1..Len(list) : list[k][key] = value})

_generate_statistics(all_analysis) ==
    LET types == {all_analysis[k].website_type : k \in 1..Len(all_analysis)}
        reasons == {all_analysis[k].qualification_reason : k \in 1..Len(all_analysis)}
    IN  [website_types |->
            [t \in types |-> Count(all_analysis, "website_type", t)],
         qualification_reasons |->
            [r \in reasons |-> Count(all_analysis, "qualification_reason", r)],
         instagram_count |-> Count(all_analysis, "instagram_found", TRUE),
         squarespace_count |-> Count(all_analysis, "squarespace_found", TRUE),
         booksy_count |-> Count(all_analysis, "booksy_found", TRUE),
         no_presence_count |-> Count(all_analysis, "website_type", "none")]

(***************************************************************************)
(* The inputs of the classifier: the records a caller may hand over        *)
(***************************************************************************)

\* The 'website' values: none, a site of the business's own, Instagram,
\* Facebook, Booksy, Squarespace, another booking platform, a Google-hosted
\* page, another social network, and a URL urlparse rejects.
Websites ==
    {"",
     "https://www.circatattoo.com/",
     "https://www.instagram.com/circatattoo/",
     "https://www.facebook.com/CircaTattoo",
     "https://booksy.com/en-us/circa",
     "https://circatattoo.squarespace.com/",
     "https://circa.acuityscheduling.com/",
     "https://sites.google.com/view/circa",
     "https://twitter.com/circatattoo",
     "http://[circa"}

\* The name and the description a record carries: no signal; an Instagram
\* handle in the description; a booking keyword in the description; and both
\* signals, the Instagram one from the name: "Big Ink" holds "ig" before a
\* word, which the pattern ig:?\s*(...) finds.
Texts ==
    {<<"Circa Tattoo", "">>,
     <<"Circa Tattoo", "Follow us @circa_ink">>,
     <<"Circa Tattoo", "Book online today">>,
     <<"Big Ink Tattoo", "Book online today">>}

ListingRecords ==
    {[name |-> t[1], phone |-> "(615) 555-0123",
      address |-> "123 Main St, Nashville, TN",
      website |-> w, description |-> t[2],
      url |-> "https://www.google.com/maps/place/1"] :
        t \in Texts, w \in Websites}

\* The batches handed to filter_businesses: one record, or two.
BatchLen == 2
Batches == UNION {[1..n -> ListingRecords] : n \in 1..BatchLen}

\* The place links of the results page, in the order of the page
MaxUrls == 6

PlaceUrl(k) == "https://www.google.com/maps/place/" \o ToString(k)

PageUrls == [k \in 1..MaxUrls |-> PlaceUrl(k)]

\* The first n links of the page: what a read of the result links yields
PageLinks(n) == SubSeq(PageUrls, 1, n)

\* The anchors find_elements yields when the feed shows n listings: a listing
\* shows its link twice, on its picture and on its title
FeedAnchors(n) == [k \in 1..(2 * n) |-> PlaceUrl((k + 1) \div 2)]

\* The anchors of a feed that shows its n listings last first
FeedAnchorsReversed(n) == [k \in 1..(2 * n) |-> PlaceUrl(n + 1 - ((k + 1) \div 2))]

\* Each new href put at the head of the list
RECURSIVE AppendNewAhead(_, _)
AppendNewAhead(list, hrefs) ==
    IF hrefs = <<>> THEN list
    ELSE AppendNewAhead(IF \E k \in 1..Len(list) : list[k] = Head(hrefs)
                        THEN list
                        ELSE <<Head(hrefs)>> \o list,
                        Tail(hrefs))

\* get_business_listings: "if href ... and href not in business_urls:
\* business_urls.append(href)", for each of hrefs in turn
RECURSIVE AppendNew(_, _)
AppendNew(list, hrefs) ==
    IF hrefs = <<>> THEN list
    ELSE AppendNew(IF \E k \in 1..Len(list) : list[k] = Head(hrefs)
                   THEN list
                   ELSE Append(list, Head(hrefs)),
                   Tail(hrefs))

\* list(dict.fromkeys(list)): the first occurrence of each item, in order
FromKeys(list) == AppendNew(<<>>, list)

\* The websites the listings of the page show, taken in turn
PageWebsites ==
    <<"",
      "https://www.circatattoo.com/",
      "https://www.instagram.com/circatattoo/",
      "https://www.facebook.com/CircaTattoo",
      "https://booksy.com/en-us/circa">>

\* extract_business_data: the business_data the worker builds from the k-th
\* listing when the name is read
PageRecordAt(k) ==
    [name |-> "Circa Tattoo", phone |-> "(615) 555-0123",
     address |-> "123 Main St, Nashville, TN",
     website |-> PageWebsites[((k - 1) % Len(PageWebsites)) + 1],
     description |-> "",
     url |-> PlaceUrl(k)]

PageRecord == [u \in {PlaceUrl(k) : k \in 1..MaxUrls} |->
                  PageRecordAt(CHOOSE k \in 1..MaxUrls : PlaceUrl(k) = u)]

(***************************************************************************)
(* State                                                                   *)
(***************************************************************************)

VARIABLES
    filter,            \* LeadScraper.filter: the BusinessFilter's attributes
    businesses,        \* filter_businesses' argument (find_leads' raw_businesses)
    idx,               \* filter_businesses: the loop's position in businesses
    all_analysis,      \* filter_businesses: all_analysis
    qualified_leads,   \* filter_businesses: qualified_leads
    fpc,               \* where the classifier's caller stands
    filter_result,     \* what the last filter_businesses call returned
    first_analysis,    \* all_analysis of find_leads' call, kept for comparison
    driver,            \* GoogleMapsScraper.driver and the state of its session
    consecutive_failures,  \* GoogleMapsScraper.consecutive_failures
    session_restarts,  \* GoogleMapsScraper.session_restarts
    business_cache,    \* GoogleMapsScraper.business_cache: URL -> record
    failed_urls,       \* GoogleMapsScraper.failed_urls
    wait,              \* GoogleMapsScraper.wait: "none", or "set" to a WebDriverWait
    spc,               \* where scrape_businesses stands
    retry_on_failure,  \* scrape_businesses' argument: FALSE in the nested call
    max_businesses,    \* scrape_businesses' argument
    attempt,           \* the attempt counter of the retry loop in progress
    business_urls,     \* get_business_listings / scrape_businesses: business_urls
    url_idx,           \* scrape_businesses: the extraction loop's position
    all_business_data, \* scrape_businesses: all_business_data
    scrape_result,     \* what scrape_businesses returned
    lpc,               \* where find_leads stands
    leads_result,      \* what find_leads returned
    page,              \* what the locators of the listing page being read yield
    closes,            \* the calls of close() made from outside the run
    cpc,               \* where the caller of close() stands
    worker_threads,    \* the extraction threads that outlived their join
    attempt_log,       \* the last connectivity check made before an engine operation
    scroll,            \* where _scroll_results stands and what its scrolls did
    search_sleeps,     \* the sleeps of search_google_maps before its retries
    pause,             \* the last sleep of the loop after an extraction
    gui                \* the GoogleMapsLeadScraperGUI instance and its search threads

filter_vars == <<filter, businesses, idx, all_analysis, qualified_leads, fpc,
                 filter_result, first_analysis>>

\* the attributes of the GoogleMapsScraper instance
session_vars == <<driver, consecutive_failures, session_restarts, business_cache,
                  failed_urls, wait>>

\* the arguments and locals of the scrape_businesses call
call_vars == <<spc, retry_on_failure, max_businesses, attempt, business_urls,
               url_idx, all_business_data, scrape_result>>

scraper_vars == <<session_vars, call_vars>>

leads_vars == <<lpc, leads_result>>

\* the listing page in the browser, the caller of close(), and the threads
\* that extract_business_data started and left running
step_vars == <<scroll, search_sleeps, pause, gui>>

outside_vars == <<page, closes, cpc, worker_threads, attempt_log, step_vars>>

vars == <<filter_vars, scraper_vars, leads_vars, outside_vars>>

\* No connectivity check has been made
NoAttempt ==
    [connected |-> FALSE,
     checks |-> [current_url |-> "unasked", script |-> "unasked", body |-> "unasked"]]

\* _scroll_results has not been called
NoScroll == [pc |-> "idle", i |-> 0, shown |-> 0, scrolls |-> 0, barren |-> {}]

\* The loop of scrape_businesses has not slept
NoPause == [ms |-> 0, calls |-> 0]

\* GoogleMapsLeadScraperGUI.__init__ and create_widgets: no scraper, no search,
\* the stop button disabled; no thread started, no callback queued
GuiInit ==
    [scraper |-> 0, is_searching |-> FALSE, search_button |-> "normal",
     stop_button |-> "disabled", threads |-> <<>>, queued |-> 0, closed |-> {}]

\* Nothing has been recorded of the steps inside the calls, and the GUI has
\* just been built
StepsQuiet ==
    scroll = NoScroll /\ search_sleeps = <<>> /\ pause = NoPause /\ gui = GuiInit

NoResult == [total_businesses |-> -1]

\* LeadScraper.__init__ has built the BusinessFilter, and find_leads is calling
\* filter_businesses(raw_businesses).
FilterInit ==
    /\ filter = BusinessFilter_init
    /\ businesses \in Batches
    /\ idx = 1
    /\ all_analysis = <<>>
    /\ qualified_leads = <<>>
    /\ fpc = "find_leads"
    /\ filter_result = NoResult
    /\ first_analysis = <<>>

\* analyze_business on the records of ListingRecords by a new BusinessFilter,
\* computed once: what a call returns depends on the instance's attributes and
\* on the record alone.
AnalysisOfNew ==
    [r \in ListingRecords \cup {PageRecord[u] : u \in DOMAIN PageRecord} |->
        analyze_business(BusinessFilter_init, r)]

Analyze(self, business_data) ==
    IF self = BusinessFilter_init /\ business_data \in DOMAIN AnalysisOfNew
    THEN AnalysisOfNew[business_data]
    ELSE analyze_business(self, business_data)

\* The analysis put before the qualified leads collected so far
CollectNewestFirst(analysis) ==
    /\ all_analysis' = Append(all_analysis, analysis)
    /\ qualified_leads' = IF analysis.is_qualified_lead
                          THEN <<analysis>> \o qualified_leads
                          ELSE qualified_leads

\* analyze_business writing its verdict into the record it was handed
BusinessAnnotated(business_data) == Update(business_data, [analysed |-> TRUE])

\* analyze_business: the record it was handed, after the call. The method and
\* the five it calls read business_data with .get alone: they assign none of
\* its keys, and the values they read are strings.
BusinessAfterAnalyze(business_data) == business_data

\* filter_businesses: the analysis appended to all_analysis and, when it is
\* qualified, to qualified_leads
Collect(analysis) ==
    /\ all_analysis' = Append(all_analysis, analysis)
    /\ qualified_leads' = IF analysis.is_qualified_lead
                          THEN Append(qualified_leads, analysis)
                          ELSE qualified_leads

\* filter_businesses, one turn of its loop: analyze_business on the next record
AnalyzeNext ==
    /\ fpc \in {"find_leads", "find_leads_detailed", "called"}
    /\ idx <= Len(businesses)
    /\ Collect(Analyze(filter, businesses[idx]))
    /\ filter' = SelfAfterAnalyze(filter, businesses[idx])
    /\ businesses' = [businesses EXCEPT ![idx] = BusinessAfterAnalyze(@)]
    /\ idx' = idx + 1
    /\ UNCHANGED <<fpc, filter_result, first_analysis>>
    /\ UNCHANGED <<scraper_vars, leads_vars, outside_vars>>

\* The rate as the share qualified / total, not multiplied by 100
QualificationShare(qualified, total) ==
    IF total > 0 THEN [num |-> qualified, den |-> total] ELSE [num |-> 0, den |-> 1]

\* filter_businesses: (len(qualified_leads) / len(businesses) * 100) if
\* businesses else 0, kept as the fraction (100 * qualified) / total
QualificationRate(qualified, total) ==
    IF total > 0
    THEN [num |-> 100 * qualified, den |-> total]
    ELSE [num |-> 0, den |-> 1]

\* filter_businesses, after the loop: the statistics and the returned dict.
FilterReturn ==
    /\ fpc \in {"find_leads", "find_leads_detailed", "called"}
    /\ idx > Len(businesses)
    /\ filter_result' =
          [qualified_leads |-> qualified_leads,
           all_analysis |-> all_analysis,
           statistics |-> _generate_statistics(all_analysis),
           total_businesses |-> Len(businesses),
           qualified_count |-> Len(qualified_leads),
           qualification_rate |->
               QualificationRate(Len(qualified_leads), Len(businesses))]
    /\ fpc' = IF fpc = "find_leads" THEN "found" ELSE "done"
    /\ UNCHANGED <<filter, businesses, idx, all_analysis, qualified_leads,
                   first_analysis>>
    /\ UNCHANGED <<scraper_vars, leads_vars, outside_vars>>

\* find_leads_detailed: find_leads has returned, total_scraped > 0, and the
\* same filter classifies the same raw_businesses again.
DetailedRefilter ==
    /\ fpc = "found"
    /\ lpc = "returned"
    /\ leads_result.total_scraped > 0
    /\ fpc' = "find_leads_detailed"
    /\ first_analysis' = all_analysis
    /\ idx' = 1
    /\ all_analysis' = <<>>
    /\ qualified_leads' = <<>>
    /\ businesses' = leads_result.raw_businesses
    /\ UNCHANGED <<filter, filter_result>>
    /\ UNCHANGED <<scraper_vars, leads_vars, outside_vars>>

\* filter_businesses, step by step
FilterNext == AnalyzeNext \/ FilterReturn

(***************************************************************************)
(* GoogleMapsScraper: the session manager                                  *)
(***************************************************************************)

\* GoogleMapsScraper.__init__
max_consecutive_failures == 5
max_session_restarts == 3

\* search_google_maps and extract_business_data: max_retries;
\* get_business_listings: range(3)
max_retries == 3
listing_attempts == 3

\* driver: "none" is self.driver = None; "live" a driver whose session answers;
\* "lost" a driver whose session is gone (crashed, quit, invalid session id).
\* An engine call on a live session returns, times out, raises another
\* WebDriverException, or finds the session gone; on a lost session it raises
\* "invalid session id"; on no driver it raises AttributeError.
EngineCall(d) ==
    IF d = "live"
    THEN {[res |-> "ok", driver |-> "live"],
          [res |-> "timeout", driver |-> "live"],
          [res |-> "error", driver |-> "live"],
          [res |-> "invalid_session", driver |-> "lost"]}
    ELSE IF d = "lost"
    THEN {[res |-> "invalid_session", driver |-> "lost"]}
    ELSE {[res |-> "error", driver |-> "none"]}

\* GoogleMapsScraper._is_browser_connected: False without a driver and when one
\* of its three engine calls raises, True otherwise; it never raises.
_is_browser_connected(d) ==
    IF d = "live"
    THEN {[ok |-> TRUE, driver |-> "live"],
          [ok |-> FALSE, driver |-> "live"],
          [ok |-> FALSE, driver |-> "lost"]}
    ELSE {[ok |-> FALSE, driver |-> d]}

\* GoogleMapsScraper.setup_driver, called with self.driver = d and self.wait =
\* w: the browser starts and is configured; or it does not start and the call
\* raises, with self.driver left as it was; or it starts, a configuration call
\* raises and the call raises with self.driver set, and with self.wait set
\* when the call that raised is the last, execute_script.
setup_driver(d, w) ==
    {[raised |-> FALSE, driver |-> "live", wait |-> "set"],
     [raised |-> TRUE, driver |-> d, wait |-> w],
     [raised |-> TRUE, driver |-> "live", wait |-> w],
     [raised |-> TRUE, driver |-> "live", wait |-> "set"]}

\* self.driver.quit(), its exception swallowed
AfterQuit(d) == IF d = "none" THEN "none" ELSE "lost"

\* _recover_browser_session past the budget check: quit, setup_driver, and
\* session_restarts += 1 when setup_driver returned
Restarted(s, restarts) ==
    [ok |-> ~s.raised, driver |-> s.driver, wait |-> s.wait,
     restarts |-> IF s.raised THEN restarts ELSE restarts + 1]

\* _recover_browser_session without its check of the restart budget
RecoverUnchecked(d, restarts) ==
    {Restarted(s, restarts) : s \in setup_driver(AfterQuit(d), wait)}

\* GoogleMapsScraper._recover_browser_session: it never raises
_recover_browser_session(d, restarts) ==
    IF restarts >= max_session_restarts
    THEN {[ok |-> FALSE, driver |-> d, wait |-> wait, restarts |-> restarts]}
    ELSE {Restarted(s, restarts) : s \in setup_driver(AfterQuit(d), wait)}

\* The browser sessions the instance has started successfully: the one of
\* __init__, and one for each setup_driver that returned in
\* _recover_browser_session and in the full retry, each followed at once by
\* session_restarts += 1.
SessionsStarted == 1 + session_restarts

\* The locals of a scrape_businesses call before their first assignment, and
\* after the call has left its try block; attempt, the loop variable of the
\* method that scrape_businesses has called, is 0 outside that method.
NoLocals ==
    /\ attempt' = 0
    /\ business_urls' = <<>>
    /\ url_idx' = 1
    /\ all_business_data' = <<>>

\* scrape_businesses: return result
ScrapeReturns(result) ==
    /\ spc' = "returned"
    /\ scrape_result' = result
    /\ NoLocals

\* The largest max_businesses find_leads is called with
MaxBusinesses == 5

\* find_leads: raw_businesses = self.scraper.scrape_businesses(keyword, city,
\* max_businesses), retry_on_failure left at its default
FindLeads ==
    /\ lpc = "start"
    /\ lpc' = "scraping"
    /\ \E m \in 1..MaxBusinesses : max_businesses' = m
    /\ retry_on_failure' = TRUE
    /\ spc' = "search"
    /\ NoLocals
    /\ UNCHANGED scrape_result
    /\ UNCHANGED <<session_vars, leads_result, filter_vars, outside_vars>>

\* search_google_maps: continue
SearchRetries(d, restarts, w) ==
    /\ driver' = d
    /\ session_restarts' = restarts
    /\ wait' = w
    /\ attempt' = attempt + 1
    /\ UNCHANGED <<consecutive_failures, spc, scrape_result, business_urls,
                   url_idx, all_business_data>>

\* search_google_maps returns False, and scrape_businesses returns []
SearchFails(d) ==
    /\ driver' = d
    /\ ScrapeReturns(<<>>)
    /\ UNCHANGED <<consecutive_failures, session_restarts, wait>>

\* search_google_maps returns True, and scrape_businesses goes on to
\* get_business_listings
SearchSucceeds(d) ==
    /\ driver' = d
    /\ consecutive_failures' = 0
    /\ spc' = "listings"
    /\ attempt' = 0
    /\ UNCHANGED <<session_restarts, wait, scrape_result, business_urls, url_idx,
                   all_business_data>>

\* search_google_maps: what follows the navigation and the waits of an attempt
SearchOutcome(e) ==
    IF e.res = "ok" THEN SearchSucceeds(e.driver)
    ELSE IF attempt >= max_retries - 1 THEN SearchFails(e.driver)
    ELSE IF e.res = "invalid_session"
    THEN \E rec \in _recover_browser_session(e.driver, session_restarts) :
            SearchRetries(rec.driver, rec.restarts, rec.wait)
    ELSE SearchRetries(e.driver, session_restarts, wait)

\* search_google_maps: what follows the connectivity check of an attempt
SearchProbed(p) ==
    IF p.ok THEN \E e \in EngineCall(p.driver) : SearchOutcome(e)
    ELSE IF attempt < max_retries - 1
    THEN \E rec \in _recover_browser_session(p.driver, session_restarts) :
            SearchRetries(rec.driver, rec.restarts, rec.wait)
    ELSE SearchFails(p.driver)

\* search_google_maps, one attempt of its loop
SearchAttempt ==
    /\ spc = "search"
    /\ attempt < max_retries
    /\ \E p \in _is_browser_connected(driver) : SearchProbed(p)
    /\ UNCHANGED <<business_cache, failed_urls, retry_on_failure, max_businesses>>
    /\ UNCHANGED <<leads_vars, filter_vars, outside_vars>>

\* get_business_listings: continue, or break after the last attempt
ListingRetries(d, restarts, w, urls) ==
    /\ driver' = d
    /\ session_restarts' = restarts
    /\ wait' = w
    /\ business_urls' = urls
    /\ IF attempt < listing_attempts - 1
       THEN attempt' = attempt + 1 /\ spc' = spc
       ELSE attempt' = 0 /\ spc' = "scroll"
    /\ UNCHANGED <<url_idx, all_business_data, scrape_result>>

\* get_business_listings: the links read, break
ListingRead(d, urls) ==
    /\ driver' = d
    /\ business_urls' = urls
    /\ spc' = "scroll"
    /\ attempt' = 0
    /\ UNCHANGED <<session_restarts, wait, url_idx, all_business_data,
                   scrape_result>>

\* get_business_listings: what follows the connectivity check of an attempt.
\* A read appends the links not yet in business_urls; one that raises has
\* appended those it reached.
ListingProbed(p) ==
    IF p.ok
    THEN \E e \in EngineCall(p.driver), n \in Len(business_urls)..MaxUrls :
            IF e.res = "ok"
            THEN ListingRead(e.driver, AppendNew(business_urls, FeedAnchors(n)))
            ELSE ListingRetries(e.driver, session_restarts, wait,
                                AppendNew(business_urls, FeedAnchors(n)))
    ELSE IF attempt < listing_attempts - 1
    THEN \E rec \in _recover_browser_session(p.driver, session_restarts) :
            ListingRetries(rec.driver, rec.restarts, rec.wait, business_urls)
    ELSE ListingRetries(p.driver, session_restarts, wait, business_urls)

\* get_business_listings, one attempt of the loop of the initial read
ListingAttempt ==
    /\ spc = "listings"
    /\ attempt < listing_attempts
    /\ \E p \in _is_browser_connected(driver) : ListingProbed(p)
    /\ UNCHANGED <<consecutive_failures, business_cache, failed_urls,
                   retry_on_failure, max_businesses>>
    /\ UNCHANGED <<leads_vars, filter_vars, outside_vars>>

\* The loop started over every link, the list not cut to max_businesses
ListingsReturnUncut(d, urls) ==
    /\ driver' = d
    /\ UNCHANGED wait
    /\ IF urls = <<>>
       THEN ScrapeReturns(<<>>)
       ELSE /\ business_urls' = FromKeys(urls)
            /\ all_business_data' = <<>>
            /\ url_idx' = 1
            /\ spc' = "loop"
            /\ UNCHANGED <<attempt, scrape_result>>

\* get_business_listings returns list(dict.fromkeys(urls)), and
\* scrape_businesses returns [] when there are none, else cuts them to
\* max_businesses and starts its loop
ListingsReturn(d, urls) ==
    /\ driver' = d
    /\ UNCHANGED wait
    /\ IF urls = <<>>
       THEN ScrapeReturns(<<>>)
       ELSE /\ business_urls' = Take(FromKeys(urls), max_businesses)
            /\ all_business_data' = <<>>
            /\ url_idx' = 1
            /\ spc' = "loop"
            /\ UNCHANGED <<attempt, scrape_result>>

\* get_business_listings: _scroll_results, which never raises, and the read
\* after scrolling
ScrollAndRead(d) ==
    \E sc \in EngineCall(d) :
        \E e \in EngineCall(sc.driver), n \in Len(business_urls)..MaxUrls :
            ListingsReturn(e.driver, AppendNew(business_urls, FeedAnchors(n)))

\* get_business_listings, after the initial read
ListingScroll ==
    /\ spc = "scroll"
    /\ \E p \in _is_browser_connected(driver) :
          IF p.ok /\ Len(business_urls) > 0
          THEN ScrollAndRead(p.driver)
          ELSE ListingsReturn(p.driver, business_urls)
    /\ UNCHANGED <<consecutive_failures, session_restarts, wait, business_cache,
                   failed_urls, retry_on_failure, max_businesses>>
    /\ UNCHANGED <<leads_vars, filter_vars, outside_vars>>

\* scrape_businesses' loop: continue. "i -= 1" before it changes nothing: the
\* for statement takes the next item of enumerate(business_urls, 1).
LoopContinue(d, restarts, w, failures) ==
    /\ driver' = d
    /\ session_restarts' = restarts
    /\ wait' = w
    /\ consecutive_failures' = failures
    /\ url_idx' = url_idx + 1
    /\ UNCHANGED <<spc, attempt, scrape_result, business_urls, all_business_data>>

\* scrape_businesses' loop: break, the summary, return all_business_data
LoopBreak(d, restarts, w, failures) ==
    /\ driver' = d
    /\ session_restarts' = restarts
    /\ wait' = w
    /\ consecutive_failures' = failures
    /\ ScrapeReturns(all_business_data)

\* scrape_businesses' loop: the browser is not connected and
\* consecutive_failures, just incremented, is failures
LoopDisconnected(d, failures) ==
    IF failures >= max_consecutive_failures
    THEN IF retry_on_failure /\ session_restarts < max_session_restarts
         THEN \E rec \in _recover_browser_session(d, session_restarts) :
                 IF rec.ok THEN LoopContinue(rec.driver, rec.restarts, rec.wait, 0)
                 ELSE LoopBreak(rec.driver, rec.restarts, rec.wait, failures)
         ELSE LoopBreak(d, session_restarts, wait, failures)
    ELSE \E rec \in _recover_browser_session(d, session_restarts) :
            LoopContinue(rec.driver, rec.restarts, rec.wait,
                         IF rec.ok THEN 0 ELSE failures)

\* scrape_businesses' loop: the browser is connected, extract_business_data(url)
\* is called
LoopExtracts(d) ==
    /\ driver' = d
    /\ spc' = "extract"
    /\ attempt' = 0
    /\ UNCHANGED <<session_restarts, wait, consecutive_failures, url_idx,
                   scrape_result, business_urls, all_business_data>>

\* scrape_businesses, one turn of its loop up to the call of
\* extract_business_data
LoopProbe ==
    /\ spc = "loop"
    /\ url_idx <= Len(business_urls)
    /\ \E p \in _is_browser_connected(driver) :
          IF p.ok THEN LoopExtracts(p.driver)
          ELSE LoopDisconnected(p.driver, consecutive_failures + 1)
    /\ UNCHANGED <<business_cache, failed_urls, retry_on_failure, max_businesses>>
    /\ UNCHANGED <<leads_vars, filter_vars, outside_vars>>

\* scrape_businesses: the loop is over, the summary, return all_business_data
LoopDone ==
    /\ spc = "loop"
    /\ url_idx > Len(business_urls)
    /\ ScrapeReturns(all_business_data)
    /\ UNCHANGED <<session_vars, retry_on_failure, max_businesses>>
    /\ UNCHANGED <<leads_vars, filter_vars, outside_vars>>

\* The loop's turn ends with the record appended and the same URL taken again
ExtractReturnsRecordAgain(d, business_data) ==
    /\ driver' = d
    /\ all_business_data' = Append(all_business_data, business_data)
    /\ consecutive_failures' = 0
    /\ url_idx' = url_idx
    /\ spc' = "loop"
    /\ attempt' = 0
    /\ UNCHANGED <<wait, business_urls, scrape_result>>

\* extract_business_data returned business_data, and the loop's turn ends
ExtractReturnsRecord(d, business_data) ==
    /\ driver' = d
    /\ all_business_data' = Append(all_business_data, business_data)
    /\ consecutive_failures' = 0
    /\ url_idx' = url_idx + 1
    /\ spc' = "loop"
    /\ attempt' = 0
    /\ UNCHANGED <<wait, business_urls, scrape_result>>

\* extract_business_data returned None, and the loop's turn ends
ExtractReturnsNone(d) ==
    /\ driver' = d
    /\ consecutive_failures' = consecutive_failures + 1
    /\ url_idx' = url_idx + 1
    /\ spc' = "loop"
    /\ attempt' = 0
    /\ UNCHANGED <<wait, all_business_data, business_urls, scrape_result>>

\* A cache hit that checks the session before it returns the cached record
ExtractCachedProbing ==
    /\ spc = "extract"
    /\ business_urls[url_idx] \in DOMAIN business_cache
    /\ \E p \in _is_browser_connected(driver) :
          ExtractReturnsRecord(p.driver, business_cache[business_urls[url_idx]])
    /\ UNCHANGED <<session_restarts, business_cache, failed_urls, retry_on_failure,
                   max_businesses>>
    /\ UNCHANGED <<leads_vars, filter_vars, outside_vars>>

\* extract_business_data: "Check cache first"
ExtractCached ==
    /\ spc = "extract"
    /\ business_urls[url_idx] \in DOMAIN business_cache
    /\ ExtractReturnsRecord(driver, business_cache[business_urls[url_idx]])
    /\ UNCHANGED <<session_restarts, business_cache, failed_urls, retry_on_failure,
                   max_businesses>>
    /\ UNCHANGED <<leads_vars, filter_vars, outside_vars>>

\* extract_business_data: "Skip if previously failed"
ExtractSkipped ==
    /\ spc = "extract"
    /\ business_urls[url_idx] \notin DOMAIN business_cache
    /\ business_urls[url_idx] \in failed_urls
    /\ ExtractReturnsNone(driver)
    /\ UNCHANGED <<session_restarts, business_cache, failed_urls, retry_on_failure,
                   max_businesses>>
    /\ UNCHANGED <<leads_vars, filter_vars, outside_vars>>

\* extraction_worker on a live session, as the main thread sees it after the
\* join: a record with a name; a record without one; None, the worker having
\* caught an exception of driver.get; or the worker still alive after the 30
\* seconds. The session may be lost during any of them: the lookups of the
\* fields swallow their exceptions, so a worker whose session goes after the
\* name was read still returns its record.
ExtractionWorker ==
    {[res |-> "record", driver |-> "live"],
     [res |-> "record", driver |-> "lost"],
     [res |-> "noname", driver |-> "live"],
     [res |-> "noname", driver |-> "lost"],
     [res |-> "none", driver |-> "live"],
     [res |-> "none", driver |-> "lost"],
     [res |-> "timeout", driver |-> "live"],
     [res |-> "timeout", driver |-> "lost"]}

\* extract_business_data: continue
ExtractRetries(d, restarts, w) ==
    /\ driver' = d
    /\ session_restarts' = restarts
    /\ wait' = w
    /\ attempt' = attempt + 1
    /\ UNCHANGED <<consecutive_failures, business_cache, failed_urls, url_idx,
                   all_business_data, spc, business_urls, scrape_result>>

\* The last attempt failed and None is returned, the URL not recorded
ExtractGivesUpForgetting(d, url) ==
    /\ ExtractReturnsNone(d)
    /\ UNCHANGED <<session_restarts, business_cache, failed_urls>>

\* extract_business_data: the last attempt failed
ExtractGivesUp(d, url) ==
    /\ failed_urls' = failed_urls \cup {url}
    /\ ExtractReturnsNone(d)
    /\ UNCHANGED <<session_restarts, business_cache>>

\* The record returned without being cached
ExtractSucceedsUncached(d, url, business_data) ==
    /\ ExtractReturnsRecord(d, business_data)
    /\ UNCHANGED <<session_restarts, business_cache, failed_urls>>

\* extract_business_data: "Cache successful extraction"
ExtractSucceeds(d, url, business_data) ==
    /\ business_cache' =
          [u \in DOMAIN business_cache \cup {url} |->
              IF u = url THEN business_data ELSE business_cache[u]]
    /\ ExtractReturnsRecord(d, business_data)
    /\ UNCHANGED <<session_restarts, failed_urls>>

\* What follows the join when a failed attempt is always followed by another
ExtractWorkedRetrying(w, url, business_data) ==
    IF w.res = "record" /\ Truthy(business_data.name)
    THEN ExtractSucceeds(w.driver, url, business_data)
    ELSE ExtractRetries(w.driver, session_restarts, wait)

\* What follows the join when a dict the worker returned is cached unexamined
ExtractWorkedUnvalidated(w, url, business_data) ==
    IF w.res = "record"
    THEN ExtractSucceeds(w.driver, url, business_data)
    ELSE IF attempt < max_retries - 1
    THEN ExtractRetries(w.driver, session_restarts, wait)
    ELSE ExtractGivesUp(w.driver, url)

\* extract_business_data: what follows the join of the worker's thread. The
\* attempt fails when the thread is still alive, when the worker returned None,
\* and when the dict it returned has no name ("if not
\* business_data.get('name')"); otherwise the dict is cached and returned.
ExtractWorked(w, url, business_data) ==
    IF w.res = "record" /\ Truthy(business_data.name)
    THEN ExtractSucceeds(w.driver, url, business_data)
    ELSE IF attempt < max_retries - 1
    THEN ExtractRetries(w.driver, session_restarts, wait)
    ELSE ExtractGivesUp(w.driver, url)

\* extract_business_data: what follows the connectivity check of an attempt
ExtractProbed(p, url) ==
    IF p.ok
    THEN \E w \in ExtractionWorker : ExtractWorked(w, url, PageRecord[url])
    ELSE IF attempt < max_retries - 1
    THEN \E rec \in _recover_browser_session(p.driver, session_restarts) :
            ExtractRetries(rec.driver, rec.restarts, rec.wait)
    ELSE ExtractGivesUp(p.driver, url)

\* extract_business_data, one attempt of its loop
ExtractAttempt ==
    /\ spc = "extract"
    /\ business_urls[url_idx] \notin DOMAIN business_cache
    /\ business_urls[url_idx] \notin failed_urls
    /\ attempt < max_retries
    /\ \E p \in _is_browser_connected(driver) :
          ExtractProbed(p, business_urls[url_idx])
    /\ UNCHANGED <<retry_on_failure, max_businesses>>
    /\ UNCHANGED <<leads_vars, filter_vars, outside_vars>>

\* scrape_businesses: a statement of the try block raises an Exception that no
\* handler of the methods it calls catches; "except Exception as e" takes it,
\* and the locals of the try block are lost.
BodyRaises ==
    /\ spc \in {"search", "listings", "scroll", "loop", "extract"}
    /\ spc' = "except"
    /\ NoLocals
    /\ UNCHANGED <<session_vars, retry_on_failure, max_businesses, scrape_result>>
    /\ UNCHANGED <<leads_vars, filter_vars, outside_vars>>

\* The full retry's setup_driver raised, outside any try: the exception leaves
\* scrape_businesses
RetryFailedUncaught(d, w) ==
    /\ driver' = d
    /\ wait' = w
    /\ spc' = "raised"
    /\ UNCHANGED <<session_restarts, retry_on_failure, attempt, business_urls,
                   url_idx, all_business_data, scrape_result>>

\* scrape_businesses' handler: the full retry's setup_driver raised, "except
\* Exception as retry_error" takes it, return []
RetryFailed(d, w) ==
    /\ driver' = d
    /\ wait' = w
    /\ ScrapeReturns(<<>>)
    /\ UNCHANGED <<session_restarts, retry_on_failure>>

\* The nested call made with retry_on_failure as it was
FullRetryAgain(d, w) ==
    /\ driver' = d
    /\ wait' = w
    /\ session_restarts' = session_restarts + 1
    /\ retry_on_failure' = retry_on_failure
    /\ spc' = "search"
    /\ NoLocals
    /\ UNCHANGED scrape_result

\* scrape_businesses' handler: setup_driver returned, session_restarts += 1 and
\* the nested call scrape_businesses(keyword, city, max_businesses, False),
\* whose result the handler returns
FullRetry(d, w) ==
    /\ driver' = d
    /\ wait' = w
    /\ session_restarts' = session_restarts + 1
    /\ retry_on_failure' = FALSE
    /\ spc' = "search"
    /\ NoLocals
    /\ UNCHANGED scrape_result

\* scrape_businesses: the handler of "except Exception as e". self.close()
\* leaves self.driver = None and self.wait = None before setup_driver is called.
ScrapeExcept ==
    /\ spc = "except"
    /\ IF retry_on_failure /\ session_restarts < max_session_restarts
       THEN \E s \in setup_driver("none", "none") :
               IF s.raised THEN RetryFailed(s.driver, s.wait)
               ELSE FullRetry(s.driver, s.wait)
       ELSE /\ ScrapeReturns(<<>>)
            /\ UNCHANGED <<driver, wait, session_restarts, retry_on_failure>>
    /\ UNCHANGED <<consecutive_failures, business_cache, failed_urls, max_businesses>>
    /\ UNCHANGED <<leads_vars, filter_vars, outside_vars>>

(***************************************************************************)
(* LeadScraper.find_leads                                                  *)
(***************************************************************************)

\* LeadScraper._empty_result (the timestamp left out)
_empty_result ==
    [keyword |-> "", city |-> "", raw_businesses |-> <<>>,
     qualified_leads |-> <<>>, statistics |-> <<>>, total_scraped |-> 0,
     total_qualified |-> 0, qualification_rate |-> [num |-> 0, den |-> 1]]

\* find_leads: scrape_businesses has returned or raised. An exception goes to
\* "except Exception as e", an empty list to "if not raw_businesses", both
\* return _empty_result(); else filter_businesses(raw_businesses) is called.
LeadsAfterScrape ==
    /\ lpc = "scraping"
    /\ spc \in {"returned", "raised"}
    /\ IF spc = "raised" \/ scrape_result = <<>>
       THEN /\ lpc' = "returned"
            /\ leads_result' = _empty_result
            /\ UNCHANGED filter_vars
       ELSE /\ lpc' = "filtering"
            /\ businesses' = scrape_result
            /\ idx' = 1
            /\ all_analysis' = <<>>
            /\ qualified_leads' = <<>>
            /\ fpc' = "find_leads"
            /\ UNCHANGED <<leads_result, filter, filter_result, first_analysis>>
    /\ UNCHANGED <<scraper_vars, outside_vars>>

\* find_leads: filter_businesses has returned, the results dict is built and
\* returned (the timestamp left out)
LeadsReturn ==
    /\ lpc = "filtering"
    /\ fpc = "found"
    /\ lpc' = "returned"
    /\ leads_result' =
          [keyword |-> "tattoo shops", city |-> "Nashville",
           raw_businesses |-> businesses,
           qualified_leads |-> filter_result.qualified_leads,
           statistics |-> filter_result.statistics,
           total_scraped |-> Len(businesses),
           total_qualified |-> filter_result.qualified_count,
           qualification_rate |-> filter_result.qualification_rate]
    /\ UNCHANGED <<filter_vars, scraper_vars, outside_vars>>

ScraperNext ==
    \/ FindLeads
    \/ SearchAttempt
    \/ ListingAttempt
    \/ ListingScroll
    \/ LoopProbe
    \/ LoopDone
    \/ ExtractCached
    \/ ExtractSkipped
    \/ ExtractAttempt
    \/ BodyRaises
    \/ ScrapeExcept
    \/ LeadsAfterScrape

\* No listing page is being read
NoPage == <<>>

\* A GoogleMapsScraper whose call of scrape_businesses has returned
ScraperQuiet ==
    /\ driver = "live"
    /\ wait = "set"
    /\ page = NoPage
    /\ closes = 0
    /\ cpc = "idle"
    /\ worker_threads = 0
    /\ attempt_log = NoAttempt
    /\ StepsQuiet
    /\ consecutive_failures = 0
    /\ session_restarts = 0
    /\ business_cache = <<>>
    /\ failed_urls = {}
    /\ spc = "returned"
    /\ retry_on_failure = TRUE
    /\ max_businesses = BatchLen
    /\ attempt = 0
    /\ business_urls = <<>>
    /\ url_idx = 1
    /\ all_business_data = <<>>

NoLeads == [total_scraped |-> -1]

\* The classifier on any batch: find_leads has got raw_businesses, one of
\* Batches, and calls filter_businesses on it.
Init ==
    /\ FilterInit
    /\ ScraperQuiet
    /\ scrape_result = businesses
    /\ lpc = "filtering"
    /\ leads_result = NoLeads

\* find_leads_detailed from the point where find_leads calls filter_businesses
Next == AnalyzeNext \/ FilterReturn \/ LeadsReturn \/ DetailedRefilter

Spec == Init /\ [][Next]_vars

\* The whole of find_leads: LeadScraper.__init__ has built the scraper, its
\* browser started, and the filter; find_leads has been called.
FindLeadsCalled ==
    /\ driver = "live"
    /\ wait = "set"
    /\ page = NoPage
    /\ closes = 0
    /\ cpc = "idle"
    /\ worker_threads = 0
    /\ attempt_log = NoAttempt
    /\ StepsQuiet
    /\ consecutive_failures = 0
    /\ business_cache = <<>>
    /\ failed_urls = {}
    /\ spc = "idle"
    /\ retry_on_failure = TRUE
    /\ max_businesses = 1
    /\ attempt = 0
    /\ business_urls = <<>>
    /\ url_idx = 1
    /\ all_business_data = <<>>
    /\ scrape_result = <<>>
    /\ lpc = "start"
    /\ leads_result = NoLeads
    /\ filter = BusinessFilter_init
    /\ businesses = <<>>
    /\ idx = 1
    /\ all_analysis = <<>>
    /\ qualified_leads = <<>>
    /\ fpc = "idle"
    /\ filter_result = NoResult
    /\ first_analysis = <<>>

ScraperInit == session_restarts = 0 /\ FindLeadsCalled

\* find_leads from its call to its return
NextScraper == ScraperNext \/ FilterNext \/ LeadsReturn

SpecScraper == ScraperInit /\ [][NextScraper]_vars

(***************************************************************************)
(* find_leads against an engine with one fault: its session is lost once,  *)
(* during the extraction of the FaultAt-th listing, and every other engine *)
(* call succeeds. The restart budget is whole (session_restarts = 0) or    *)
(* spent (session_restarts = max_session_restarts, left by earlier runs of *)
(* the instance), and a restart within the budget succeeds.                *)
(***************************************************************************)

\* The extraction during which the session is lost: the second
FaultAt == 2

\* The fault has happened: the session is lost, or has been restarted since
Faulted == driver # "live" \/ session_restarts \notin {0, max_session_restarts}

\* The step's engine calls succeed, on a session that stays live
EngineSucceeds ==
    /\ spc = "search" => spc' = "listings"
    /\ spc = "listings" => spc' = "scroll"
    /\ (spc = "loop" /\ url_idx <= Len(business_urls)) => spc' = "extract"
    /\ spc = "extract" => business_urls[url_idx] \in DOMAIN business_cache'

\* What the engine with one fault lets a step of the scraper do
OneFault ==
    /\ (driver = "live" /\ driver' = "live" /\ session_restarts' = session_restarts)
          => EngineSucceeds
    /\ (driver = "live" /\ (driver' # "live" \/ session_restarts' # session_restarts))
          => (spc = "extract" /\ url_idx = FaultAt /\ ~Faulted)
    /\ (/\ driver = "lost"
        /\ session_restarts < max_session_restarts
        /\ ~(spc = "extract" /\ attempt = max_retries - 1))
          => driver' = "live"

ResilienceInit ==
    /\ session_restarts \in {0, max_session_restarts}
    /\ FindLeadsCalled

NextResilience ==
    \/ FindLeads
    \/ SearchAttempt /\ OneFault
    \/ ListingAttempt /\ OneFault
    \/ ListingScroll /\ OneFault
    \/ LoopProbe /\ OneFault
    \/ LoopDone
    \/ ExtractAttempt /\ OneFault
    \/ LeadsAfterScrape
    \/ FilterNext
    \/ LeadsReturn

SpecResilience == ResilienceInit /\ [][NextResilience]_vars

(***************************************************************************)
(* scrape_businesses called on a new GoogleMapsScraper with its defaults,   *)
(* and no statement of its try block raising outside the methods it calls, *)
(* which catch their exceptions: the extraction loop runs over every link  *)
(* of the results page.                                                    *)
(***************************************************************************)

\* scrape_businesses: the default of max_businesses
default_max_businesses == 50

\* GoogleMapsScraper.__init__ has started the browser, and
\* scrape_businesses(keyword, city) has been called
ScrapeCalled ==
    /\ driver = "live"
    /\ wait = "set"
    /\ page = NoPage
    /\ closes = 0
    /\ cpc = "idle"
    /\ worker_threads = 0
    /\ attempt_log = NoAttempt
    /\ StepsQuiet
    /\ consecutive_failures = 0
    /\ session_restarts = 0
    /\ business_cache = <<>>
    /\ failed_urls = {}
    /\ spc = "search"
    /\ retry_on_failure = TRUE
    /\ max_businesses = default_max_businesses
    /\ attempt = 0
    /\ business_urls = <<>>
    /\ url_idx = 1
    /\ all_business_data = <<>>
    /\ scrape_result = <<>>
    /\ lpc = "start"
    /\ leads_result = NoLeads
    /\ filter = BusinessFilter_init
    /\ businesses = <<>>
    /\ idx = 1
    /\ all_analysis = <<>>
    /\ qualified_leads = <<>>
    /\ fpc = "idle"
    /\ filter_result = NoResult
    /\ first_analysis = <<>>

NextDirect ==
    \/ SearchAttempt
    \/ ListingAttempt
    \/ ListingScroll
    \/ LoopProbe
    \/ LoopDone
    \/ ExtractAttempt

SpecDirect == ScrapeCalled /\ [][NextDirect]_vars

(***************************************************************************)
(* extraction_worker, field by field, against an engine whose only faults  *)
(* are those of the field locators: the session answers, the navigation    *)
(* succeeds and the worker ends within its timeout. page holds what each   *)
(* locator of the listing page yields.                                     *)
(***************************************************************************)

\* The lookup raised (no such element, or the wait timed out)
NoElement == [found |-> FALSE]

\* The element a text locator found
Element(label, text) == [found |-> TRUE, label |-> label, text |-> text]

\* The elements a link locator found, by their href
Links(hrefs) == [found |-> TRUE, hrefs |-> hrefs]

\* The elements a description locator found, by their text
Texts_(texts) == [found |-> TRUE, texts |-> texts]

\* The body of the page, by what re.findall finds in its text with the first
\* of phone_patterns that matches
Body(matches) == [found |-> TRUE, matches |-> matches]

\* element.get_attribute('aria-label') or element.text
TextOf(element) == IF Truthy(element.label) THEN element.label ELSE element.text

\* extraction_worker: "for selector in selectors", the lookups that raise
\* skipped: the stripped text of the first element whose text is not blank
RECURSIVE FirstText(_)
FirstText(found) ==
    IF found = <<>> THEN ""
    ELSE IF Head(found).found /\ Truthy(Strip(TextOf(Head(found))))
    THEN Strip(TextOf(Head(found)))
    ELSE FirstText(Tail(found))

\* GoogleMapsScraper._extract_phone_fallback, its exceptions swallowed
_extract_phone_fallback(body) ==
    IF body.found /\ body.matches # <<>>
    THEN "(" \o body.matches[1][1] \o ") " \o body.matches[1][2] \o "-"
             \o body.matches[1][3]
    ELSE ""

\* GoogleMapsScraper._is_valid_website
_is_valid_website(url) ==
    /\ Truthy(url)
    /\ ~AnyIn(<<"google.com", "maps.google.com", "googleusercontent.com",
                "gstatic.com", "googleapis.com", "accounts.google.com">>, url)
    /\ (StartsWith(url, "http://") \/ StartsWith(url, "https://"))

\* extraction_worker: "for element in elements", the first valid href
RECURSIVE FirstValid(_)
FirstValid(hrefs) ==
    IF hrefs = <<>> THEN ""
    ELSE IF _is_valid_website(Head(hrefs)) THEN Head(hrefs)
    ELSE FirstValid(Tail(hrefs))

\* extraction_worker: "for selector in website_selectors"
RECURSIVE FirstWebsite(_)
FirstWebsite(found) ==
    IF found = <<>> THEN ""
    ELSE IF Head(found).found /\ Truthy(FirstValid(Head(found).hrefs))
    THEN FirstValid(Head(found).hrefs)
    ELSE FirstWebsite(Tail(found))

\* extraction_worker: the first text of more than 10 characters
RECURSIVE FirstLong(_)
FirstLong(texts) ==
    IF texts = <<>> THEN ""
    ELSE IF Len(Strip(Head(texts))) > 10 THEN Strip(Head(texts))
    ELSE FirstLong(Tail(texts))

\* extraction_worker: "for selector in description_selectors"
RECURSIVE FirstDescription(_)
FirstDescription(found) ==
    IF found = <<>> THEN ""
    ELSE IF Head(found).found /\ Truthy(FirstLong(Head(found).texts))
    THEN FirstLong(Head(found).texts)
    ELSE FirstDescription(Tail(found))

\* extraction_worker: the phone, by the locators and then by the fallback
WorkerPhone(pg) ==
    IF Truthy(FirstText(pg.phone)) THEN FirstText(pg.phone)
    ELSE _extract_phone_fallback(pg.body)

\* extraction_worker: the dict it returns for the page pg of business_url
extraction_worker(business_url, pg) ==
    [name |-> FirstText(pg.name),
     phone |-> WorkerPhone(pg),
     address |-> FirstText(pg.address),
     website |-> FirstWebsite(pg.website),
     description |-> FirstDescription(pg.description),
     url |-> business_url]

\* What the four locators of the name yield: the first finds the heading; two
\* raise and the third finds a heading without text before the last finds it
\* by its label; all raise; all find blank text
NameLocators ==
    {<<Element("", " Circa Tattoo "), NoElement, NoElement, NoElement>>,
     <<NoElement, NoElement, Element("", "  "), Element("Circa Tattoo", "")>>,
     <<NoElement, NoElement, NoElement, NoElement>>,
     <<Element("", ""), Element("", " "), Element("", ""), Element("", "")>>}

\* What the four locators of the phone yield: the labelled span; a span with
\* the number alone; one with the number in its international form; one with
\* too few digits; nothing
PhoneLocators ==
    {<<Element("Phone: (615) 555-0123 ", ""), NoElement, NoElement, NoElement>>,
     <<NoElement, Element("", ""), NoElement, Element("", "(615) 555-0123")>>,
     <<NoElement, Element("", "+1 (615) 555-0123"), NoElement, NoElement>>,
     <<NoElement, NoElement, Element("", "555"), NoElement>>,
     <<NoElement, NoElement, NoElement, NoElement>>}

Bodies == {NoElement, Body(<<>>), Body(<<<<"615", "555", "0199">>>>)}

AddressLocators ==
    {<<Element("Address: 123 Main St, Nashville, TN ", ""), NoElement, NoElement,
       NoElement>>,
     <<Element("", " "), NoElement, Element("", "123 Main St"), NoElement>>,
     <<NoElement, NoElement, NoElement, NoElement>>}

WebsiteLocators ==
    {<<Links(<<"https://www.circatattoo.com/">>), NoElement, NoElement, NoElement,
       NoElement, NoElement, NoElement>>,
     <<Links(<<"https://www.google.com/maps/reserve">>), NoElement,
       Links(<<"", "https://www.instagram.com/circatattoo/">>), NoElement,
       NoElement, NoElement, NoElement>>,
     <<Links(<<"tel:6155550123", "https://maps.google.com/">>), NoElement,
       NoElement, NoElement, NoElement, NoElement, NoElement>>,
     <<NoElement, NoElement, NoElement, NoElement, NoElement, NoElement,
       NoElement>>}

DescriptionLocators ==
    {<<NoElement, NoElement, NoElement>>,
     <<Texts_(<<"Tattoos", " Custom tattoos since 2009 ">>), NoElement, NoElement>>}

\* The listing pages of the check
Pages ==
    [name : NameLocators, phone : PhoneLocators, body : Bodies,
     address : AddressLocators, website : WebsiteLocators,
     description : DescriptionLocators]

\* scrape_businesses is in its loop over the one link of the results page,
\* whose listing page is one of Pages
WorkerInit ==
    /\ driver = "live"
    /\ wait = "set"
    /\ page \in Pages
    /\ closes = 0
    /\ cpc = "idle"
    /\ worker_threads = 0
    /\ attempt_log = NoAttempt
    /\ StepsQuiet
    /\ consecutive_failures = 0
    /\ session_restarts = 0
    /\ business_cache = <<>>
    /\ failed_urls = {}
    /\ spc = "loop"
    /\ retry_on_failure = TRUE
    /\ max_businesses = default_max_businesses
    /\ attempt = 0
    /\ business_urls = <<PlaceUrl(1)>>
    /\ url_idx = 1
    /\ all_business_data = <<>>
    /\ scrape_result = <<>>
    /\ lpc = "start"
    /\ leads_result = NoLeads
    /\ filter = BusinessFilter_init
    /\ businesses = <<>>
    /\ idx = 1
    /\ all_analysis = <<>>
    /\ qualified_leads = <<>>
    /\ fpc = "idle"
    /\ filter_result = NoResult
    /\ first_analysis = <<>>

\* extract_business_data, one attempt of its loop: the session answers the
\* connectivity check, and the worker returns its dict for the page
ExtractPageAttempt ==
    /\ spc = "extract"
    /\ business_urls[url_idx] \notin DOMAIN business_cache
    /\ business_urls[url_idx] \notin failed_urls
    /\ attempt < max_retries
    /\ ExtractWorked([res |-> "record", driver |-> "live"], business_urls[url_idx],
                     extraction_worker(business_urls[url_idx], page))
    /\ UNCHANGED <<retry_on_failure, max_businesses>>
    /\ UNCHANGED <<leads_vars, filter_vars, outside_vars>>

NextWorker ==
    \/ LoopProbe /\ spc' = "extract"
    \/ ExtractPageAttempt
    \/ LoopDone

SpecWorker == WorkerInit /\ [][NextWorker]_vars

(***************************************************************************)
(* close() called from outside the run loop, as the GUI's Stop does while  *)
(* its worker thread is in find_leads. The engine has no fault of its own: *)
(* a live session answers and stays live, so that the run is disturbed by  *)
(* nothing but the calls of close().                                       *)
(***************************************************************************)

\* The most calls of close() during one run
MaxCloses == 2

\* self.driver.quit(), on a session live or lost: whether it raises
quit(d) == {FALSE, TRUE}

\* close() without the try around quit(): its exception escapes
CloseUnguarded(raised) ==
    IF raised
    THEN cpc' = "raised" /\ UNCHANGED <<driver, wait>>
    ELSE driver' = "none" /\ wait' = "none" /\ cpc' = "returned"

\* GoogleMapsScraper.close, quit() having raised or not: the exception is
\* swallowed, self.driver = None, self.wait = None
close(raised) ==
    /\ driver' = "none"
    /\ wait' = "none"
    /\ cpc' = "returned"

\* stop_search, LeadScraper.close: self.scraper.close(), at any point of the
\* run once find_leads has been called. quit() is called "if self.driver".
Close ==
    /\ lpc # "start"
    /\ closes < MaxCloses
    /\ closes' = closes + 1
    /\ \E raised \in (IF driver = "none" THEN {FALSE} ELSE quit(driver)) : close(raised)
    /\ UNCHANGED <<consecutive_failures, session_restarts, business_cache, failed_urls>>
    /\ UNCHANGED <<call_vars, leads_vars, filter_vars, page, worker_threads,
                   attempt_log, step_vars>>

\* What the engine without faults of its own lets a step of the scraper do
NoFault ==
    driver = "live" =>
        /\ driver' = "live"
        /\ session_restarts' = session_restarts
        /\ EngineSucceeds

NextStop ==
    \/ FindLeads
    \/ SearchAttempt /\ NoFault
    \/ ListingAttempt /\ NoFault
    \/ ListingScroll /\ NoFault
    \/ LoopProbe /\ NoFault
    \/ LoopDone
    \/ ExtractAttempt /\ NoFault
    \/ LeadsAfterScrape
    \/ FilterNext
    \/ LeadsReturn
    \/ Close

SpecStop == ScraperInit /\ [][NextStop]_vars

(***************************************************************************)
(* extract_business_data and the threads it starts, against an engine      *)
(* whose session stays live and whose only fault is slowness: the worker   *)
(* of an attempt returns its dict within extraction_timeout, or is still   *)
(* running when join(timeout=extraction_timeout) returns.                  *)
(***************************************************************************)

\* extract_business_data, one attempt of its loop whose thread is alive after
\* the join: timeout_occurred.set(), the sleeps, then continue or, after the
\* last attempt, failed_urls.add and return None. The thread is not joined
\* again: it runs on, a daemon, until its worker returns.
ExtractTimedOut ==
    /\ spc = "extract"
    /\ business_urls[url_idx] \notin DOMAIN business_cache
    /\ business_urls[url_idx] \notin failed_urls
    /\ attempt < max_retries
    /\ ExtractWorked([res |-> "timeout", driver |-> "live"], business_urls[url_idx],
                     extraction_worker(business_urls[url_idx], page))
    /\ worker_threads' = worker_threads + 1
    /\ UNCHANGED <<retry_on_failure, max_businesses>>
    /\ UNCHANGED <<leads_vars, filter_vars, page, closes, cpc, attempt_log,
                   step_vars>>

\* run_extraction in a thread that outlived its join: extraction_worker
\* returns (at the latest when it sees timeout_occurred between two locators),
\* result[0] of that attempt is assigned, and the thread ends. Nothing reads
\* that result list any more.
WorkerEnds ==
    /\ worker_threads > 0
    /\ worker_threads' = worker_threads - 1
    /\ UNCHANGED <<scraper_vars, leads_vars, filter_vars, page, closes, cpc,
                   attempt_log, step_vars>>

\* The steps of the main flow that call the engine: the connectivity check of
\* the loop, and an attempt of extract_business_data (its connectivity check
\* and its worker's navigation)
MainFlowEngineCall == LoopProbe \/ ExtractPageAttempt \/ ExtractTimedOut

NextThreads ==
    \/ LoopProbe /\ spc' = "extract"
    \/ ExtractPageAttempt
    \/ ExtractTimedOut
    \/ WorkerEnds
    \/ LoopDone

SpecThreads == WorkerInit /\ [][NextThreads]_vars

(***************************************************************************)
(* filter_businesses called by itself on a new BusinessFilter, with the    *)
(* batches find_leads never hands over: the empty one, and those holding   *)
(* records that lack fields or hold them empty.                            *)
(***************************************************************************)

\* The keys of a record of the scraper
RecordKeys == {"name", "phone", "address", "website", "description", "url"}

\* A record that holds every field, with an Instagram handle in its name
FullRecord ==
    [name |-> "Big Ink Tattoo", phone |-> "(615) 555-0123",
     address |-> "123 Main St, Nashville, TN",
     website |-> "https://booksy.com/en-us/circa",
     description |-> "Book online today",
     url |-> "https://www.google.com/maps/place/1"]

\* The record r without the keys of missing
Lacking(r, missing) == [k \in DOMAIN r \ missing |-> r[k]]

\* The record r with '' under the keys of empty
Blanked(r, empty) == [k \in DOMAIN r |-> IF k \in empty THEN "" ELSE r[k]]

\* FullRecord lacking any of its fields, or holding any of them empty
IncompleteRecords ==
    {Lacking(FullRecord, K) : K \in SUBSET RecordKeys}
        \cup {Blanked(FullRecord, K) : K \in SUBSET RecordKeys}

\* The record of ListingRecords with the website w and no signal in its texts
Listed(w) ==
    [name |-> "Circa Tattoo", phone |-> "(615) 555-0123",
     address |-> "123 Main St, Nashville, TN",
     website |-> w, description |-> "",
     url |-> "https://www.google.com/maps/place/1"]

\* Five records, of which the second, with a website of its own, does not
\* qualify
FiveRecords ==
    <<Listed(""), Listed("https://www.circatattoo.com/"),
      Listed("https://www.instagram.com/circatattoo/"),
      Listed("https://booksy.com/en-us/circa"),
      Listed("https://circatattoo.squarespace.com/")>>

\* The batches handed to filter_businesses: none, an incomplete record before
\* a complete one, one of the two kinds, and the five
FilterBatches ==
    {<<>>, FiveRecords}
        \cup {<<r, FullRecord>> : r \in IncompleteRecords}
        \cup {<<Listed(""), Listed(w)>> : w \in Websites}
        \cup {<<Listed(w), Listed("")>> : w \in Websites}

\* A BusinessFilter has been built and filter_businesses(businesses) called
FilterCalled ==
    /\ filter = BusinessFilter_init
    /\ businesses \in FilterBatches
    /\ idx = 1
    /\ all_analysis = <<>>
    /\ qualified_leads = <<>>
    /\ fpc = "called"
    /\ filter_result = NoResult
    /\ first_analysis = <<>>
    /\ ScraperQuiet
    /\ scrape_result = <<>>
    /\ lpc = "start"
    /\ leads_result = NoLeads

SpecFilter == FilterCalled /\ [][FilterNext]_vars

(***************************************************************************)
(* search_google_maps, with the page its navigation loads: page holds      *)
(* whether the results container and a place link are on it.               *)
(***************************************************************************)

\* What self.driver.get(url) may load: a page with or without the element
\* [role='feed'], with or without a link a[href*='/maps/place/']
SearchPages == [feed : BOOLEAN, place_link : BOOLEAN]

\* search_google_maps: the wait for the feed or, when it times out, the wait
\* for a place link, finds its element
ResultsShown(pg) == pg.feed \/ pg.place_link

\* The attempt taken as successful whenever the navigation returned
SearchWaitsUnseen(e, pg) == e

\* search_google_maps: the outcome of an attempt whose navigation ended as e
\* and, when it returned, loaded pg: both waits time out when pg shows neither
\* element
SearchWaits(e, pg) ==
    IF e.res = "ok" /\ ~ResultsShown(pg)
    THEN [res |-> "timeout", driver |-> e.driver]
    ELSE e

\* search_google_maps, one attempt of its loop, on the page it loads
SearchPageAttempt ==
    /\ spc = "search"
    /\ attempt < max_retries
    /\ \E p \in _is_browser_connected(driver) :
          IF p.ok
          THEN \E e \in EngineCall(p.driver), pg \in SearchPages :
                  /\ e.res # "timeout"
                  /\ page' = IF e.res = "ok" THEN pg ELSE page
                  /\ SearchOutcome(SearchWaits(e, pg))
          ELSE SearchProbed(p) /\ page' = page
    /\ UNCHANGED <<business_cache, failed_urls, retry_on_failure, max_businesses>>
    /\ UNCHANGED <<leads_vars, filter_vars, closes, cpc, worker_threads,
                   attempt_log, step_vars>>

\* scrape_businesses from its call to the start of its extraction loop
NextSearch ==
    \/ SearchPageAttempt
    \/ ListingAttempt /\ page' = page
    \/ ListingScroll /\ page' = page

SpecSearch == ScrapeCalled /\ [][NextSearch]_vars

(***************************************************************************)
(* The connectivity check, call by call, and the attempts that start with  *)
(* it. attempt_log keeps what the engine answered to the last check and    *)
(* what the check returned.                                                *)
(***************************************************************************)

\* What the engine answers to the three calls of _is_browser_connected, a call
\* that is not made being "unasked": all three answer; current_url raises;
\* current_url is empty; execute_script raises; find_element of body raises
BrowserChecks ==
    {[current_url |-> "url", script |-> "ok", body |-> "ok"],
     [current_url |-> "raises", script |-> "unasked", body |-> "unasked"],
     [current_url |-> "", script |-> "unasked", body |-> "unasked"],
     [current_url |-> "url", script |-> "raises", body |-> "unasked"],
     [current_url |-> "url", script |-> "ok", body |-> "raises"]}

\* The engine reported a current URL, ran the script and located the body
ChecksPass(c) == c.current_url = "url" /\ c.script = "ok" /\ c.body = "ok"

\* The answers the session d can give: any on a live session, an exception
\* from the first call on a lost one, and no call is made without a driver
Answers(d) ==
    IF d = "live" THEN BrowserChecks
    ELSE IF d = "lost"
    THEN {[current_url |-> "raises", script |-> "unasked", body |-> "unasked"]}
    ELSE {NoAttempt.checks}

\* The check returning True without looking for the body
BrowserCheckWithoutBody(d, c) ==
    IF d = "none" THEN {[ok |-> FALSE, driver |-> d]}
    ELSE IF c.current_url = "url" /\ c.script = "ok" THEN {[ok |-> TRUE, driver |-> d]}
    ELSE IF c.current_url = "" THEN {[ok |-> FALSE, driver |-> d]}
    ELSE {[ok |-> FALSE, driver |-> d], [ok |-> FALSE, driver |-> "lost"]}

\* GoogleMapsScraper._is_browser_connected on the session d whose engine
\* answers c: False without a driver, False when current_url is empty or a
\* call raises (the session may be gone), True otherwise
BrowserCheck(d, c) ==
    IF d = "none" THEN {[ok |-> FALSE, driver |-> d]}
    ELSE IF ChecksPass(c) THEN {[ok |-> TRUE, driver |-> d]}
    ELSE IF c.current_url = "" THEN {[ok |-> FALSE, driver |-> d]}
    ELSE {[ok |-> FALSE, driver |-> d], [ok |-> FALSE, driver |-> "lost"]}

\* The check that answered c has returned p.ok
Logged(c, p) == attempt_log' = [connected |-> p.ok, checks |-> c]

\* search_google_maps, one attempt of its loop, from its connectivity check
ProbedSearchAttempt ==
    /\ spc = "search"
    /\ attempt < max_retries
    /\ \E c \in Answers(driver) :
          \E p \in BrowserCheck(driver, c) : SearchProbed(p) /\ Logged(c, p)
    /\ UNCHANGED <<business_cache, failed_urls, retry_on_failure, max_businesses>>
    /\ UNCHANGED <<leads_vars, filter_vars, page, closes, cpc, worker_threads,
                   step_vars>>

\* get_business_listings, one attempt of the initial read, from its
\* connectivity check
ProbedListingAttempt ==
    /\ spc = "listings"
    /\ attempt < listing_attempts
    /\ \E c \in Answers(driver) :
          \E p \in BrowserCheck(driver, c) : ListingProbed(p) /\ Logged(c, p)
    /\ UNCHANGED <<consecutive_failures, business_cache, failed_urls,
                   retry_on_failure, max_businesses>>
    /\ UNCHANGED <<leads_vars, filter_vars, page, closes, cpc, worker_threads,
                   step_vars>>

\* get_business_listings, after the initial read, from its connectivity check
ProbedListingScroll ==
    /\ spc = "scroll"
    /\ \E c \in Answers(driver) :
          \E p \in BrowserCheck(driver, c) :
              /\ IF p.ok /\ Len(business_urls) > 0
                 THEN ScrollAndRead(p.driver)
                 ELSE ListingsReturn(p.driver, business_urls)
              /\ Logged(c, p)
    /\ UNCHANGED <<consecutive_failures, session_restarts, wait, business_cache,
                   failed_urls, retry_on_failure, max_businesses>>
    /\ UNCHANGED <<leads_vars, filter_vars, page, closes, cpc, worker_threads,
                   step_vars>>

\* extract_business_data, one attempt of its loop, from its connectivity check
ProbedExtractAttempt ==
    /\ spc = "extract"
    /\ business_urls[url_idx] \notin DOMAIN business_cache
    /\ business_urls[url_idx] \notin failed_urls
    /\ attempt < max_retries
    /\ \E c \in Answers(driver) :
          \E p \in BrowserCheck(driver, c) :
              ExtractProbed(p, business_urls[url_idx]) /\ Logged(c, p)
    /\ UNCHANGED <<retry_on_failure, max_businesses>>
    /\ UNCHANGED <<leads_vars, filter_vars, page, closes, cpc, worker_threads,
                   step_vars>>

NextProbe ==
    \/ ProbedSearchAttempt
    \/ ProbedListingAttempt
    \/ ProbedListingScroll
    \/ LoopProbe
    \/ LoopDone
    \/ ProbedExtractAttempt

SpecProbe == ScrapeCalled /\ [][NextProbe]_vars

(***************************************************************************)
(* _scroll_results, scroll by scroll. scroll.i is the loop's index, .shown *)
(* the places the feed shows, .scrolls the scrolls performed and .barren   *)
(* the indices whose scroll was followed by no new link within the wait.   *)
(***************************************************************************)

\* _scroll_results: max_scrolls
max_scrolls == 5

\* The loop variable takes its next value, or range(max_scrolls) is exhausted
ScrollContinues(sc) ==
    [sc EXCEPT !.i = @ + 1, !.pc = IF sc.i + 1 < max_scrolls THEN "loop" ELSE "final"]

\* A wait that times out never ends the loop
ScrollBarrenGoesOn(sc) ==
    ScrollContinues([sc EXCEPT !.scrolls = @ + 1, !.barren = @ \cup {sc.i}])

\* except TimeoutException: if i > 0: break, else sleep and go on
ScrollBarren(sc) ==
    IF sc.i > 0
    THEN [sc EXCEPT !.scrolls = @ + 1, !.barren = @ \cup {sc.i}, !.pc = "final"]
    ELSE ScrollContinues([sc EXCEPT !.scrolls = @ + 1, !.barren = @ \cup {sc.i}])

\* The wait saw more links than before the scroll
ScrollLoaded(sc, more) ==
    ScrollContinues([sc EXCEPT !.scrolls = @ + 1, !.shown = @ + more])

\* One iteration of for i in range(max_scrolls), the check having returned p
\* and the engine answering e to the calls after it
ScrollProbed(p, e) ==
    IF ~p.ok THEN {[scroll EXCEPT !.pc = "final"]}
    ELSE IF e.res = "ok"
    THEN {ScrollLoaded(scroll, more) : more \in 1..(MaxUrls - scroll.shown)}
    ELSE IF e.res = "timeout" THEN {ScrollBarren(scroll)}
    ELSE {[scroll EXCEPT !.pc = "final"],
          [scroll EXCEPT !.pc = "final", !.scrolls = @ + 1]}

\* get_business_listings after the initial read: the check, and
\* _scroll_results up to its loop (the panel is located and the links counted)
ScrollEnter ==
    /\ spc = "scroll"
    /\ scroll.pc = "idle"
    /\ \E p \in _is_browser_connected(driver) :
          IF p.ok /\ Len(business_urls) > 0
          THEN \E e \in EngineCall(p.driver), n \in Len(business_urls)..MaxUrls :
                  /\ driver' = e.driver
                  /\ scroll' = [NoScroll EXCEPT !.shown = n,
                                  !.pc = IF e.res = "ok" THEN "loop" ELSE "final"]
                  /\ UNCHANGED call_vars
          ELSE /\ ListingsReturn(p.driver, business_urls)
               /\ UNCHANGED scroll
    /\ UNCHANGED <<consecutive_failures, session_restarts, wait, business_cache,
                   failed_urls, retry_on_failure, max_businesses>>
    /\ UNCHANGED <<leads_vars, filter_vars, page, closes, cpc, worker_threads,
                   attempt_log, search_sleeps, pause, gui>>

\* _scroll_results, one iteration of its loop
ScrollIteration ==
    /\ spc = "scroll"
    /\ scroll.pc = "loop"
    /\ \E p \in _is_browser_connected(driver) :
          \E e \in EngineCall(p.driver) :
              /\ driver' = IF p.ok THEN e.driver ELSE p.driver
              /\ scroll' \in ScrollProbed(p, e)
    /\ UNCHANGED <<consecutive_failures, session_restarts, wait, business_cache,
                   failed_urls, call_vars>>
    /\ UNCHANGED <<leads_vars, filter_vars, page, closes, cpc, worker_threads,
                   attempt_log, search_sleeps, pause, gui>>

\* _scroll_results after its loop (the final count, which may raise into
\* "Scrolling failed"), then get_business_listings reads the links again, from
\* a feed that shows its listings in the first order or the other way round,
\* and returns
ScrollFinish ==
    /\ spc = "scroll"
    /\ scroll.pc = "final"
    /\ scroll' = [scroll EXCEPT !.pc = "done"]
    /\ \E sc \in EngineCall(driver) :
          \E e \in EngineCall(sc.driver), n \in Len(business_urls)..MaxUrls :
              \E hrefs \in {FeedAnchors(n), FeedAnchorsReversed(n)} :
                  ListingsReturn(e.driver, AppendNew(business_urls, hrefs))
    /\ UNCHANGED <<consecutive_failures, session_restarts, wait, business_cache,
                   failed_urls, retry_on_failure, max_businesses>>
    /\ UNCHANGED <<leads_vars, filter_vars, page, closes, cpc, worker_threads,
                   attempt_log, search_sleeps, pause, gui>>

NextScroll ==
    \/ SearchAttempt
    \/ ListingAttempt
    \/ ScrollEnter
    \/ ScrollIteration
    \/ ScrollFinish

SpecScroll == ScrapeCalled /\ [][NextScroll]_vars

(***************************************************************************)
(* The sleeps of search_google_maps. search_sleeps holds, for each retry,  *)
(* the seconds the attempt before it slept in search_google_maps itself    *)
(* (0 where it went to _recover_browser_session instead).                  *)
(***************************************************************************)

\* search_google_maps: retry_delay
retry_delay == 2

\* What attempt a sleeps before the next one: nothing after a failed check or
\* a lost session, time.sleep(retry_delay) after a timeout or another error
SearchSleep(ok, res, a) ==
    IF ~ok \/ res = "invalid_session" THEN 0 ELSE retry_delay

\* search_google_maps, one attempt of its loop, with the sleep it ends on
TimedSearchAttempt ==
    /\ spc = "search"
    /\ attempt < max_retries
    /\ \E p \in _is_browser_connected(driver) :
          \E e \in EngineCall(p.driver) :
              /\ IF p.ok THEN SearchOutcome(e) ELSE SearchProbed(p)
              /\ search_sleeps' =
                    IF spc' = "search"
                    THEN Append(search_sleeps, SearchSleep(p.ok, e.res, attempt))
                    ELSE search_sleeps
    /\ UNCHANGED <<business_cache, failed_urls, retry_on_failure, max_businesses>>
    /\ UNCHANGED <<leads_vars, filter_vars, page, closes, cpc, worker_threads,
                   attempt_log, scroll, pause, gui>>

NextBackoff ==
    \/ TimedSearchAttempt
    \/ ListingAttempt
    \/ ListingScroll

SpecBackoff == ScrapeCalled /\ [][NextBackoff]_vars

(***************************************************************************)
(* The sleep that ends a turn of the loop of scrape_businesses in which    *)
(* extract_business_data was called. Delays are in milliseconds. pause.ms  *)
(* is the last of them, pause.calls the number of calls that have returned.*)
(***************************************************************************)

\* The listings of a run long enough for the delay to reach its ceiling
PauseUrls == 8

\* A delay that goes on growing with the failures
ExtractionDelayUncapped(failures) ==
    IF failures > 0 THEN 500 + failures * 200 ELSE 300

\* scrape_businesses: "Progressive delay based on consecutive failures",
\* min(0.5 + consecutive_failures * 0.2, 2.0) or 0.3 seconds
ExtractionDelay(failures) ==
    IF failures > 0
    THEN IF 500 + failures * 200 < 2000 THEN 500 + failures * 200 ELSE 2000
    ELSE 300

\* scrape_businesses has read PauseUrls links and enters its loop
LoopStarted ==
    /\ driver = "live"
    /\ wait = "set"
    /\ page = NoPage
    /\ closes = 0
    /\ cpc = "idle"
    /\ worker_threads = 0
    /\ attempt_log = NoAttempt
    /\ StepsQuiet
    /\ consecutive_failures = 0
    /\ session_restarts = 0
    /\ business_cache = <<>>
    /\ failed_urls = {}
    /\ spc = "loop"
    /\ retry_on_failure = TRUE
    /\ max_businesses = default_max_businesses
    /\ attempt = 0
    /\ business_urls = [k \in 1..PauseUrls |-> PlaceUrl(k)]
    /\ url_idx = 1
    /\ all_business_data = <<>>
    /\ scrape_result = <<>>
    /\ lpc = "start"
    /\ leads_result = NoLeads
    /\ filter = BusinessFilter_init
    /\ businesses = <<>>
    /\ idx = 1
    /\ all_analysis = <<>>
    /\ qualified_leads = <<>>
    /\ fpc = "idle"
    /\ filter_result = NoResult
    /\ first_analysis = <<>>

\* extract_business_data, one attempt of its loop, and, when the call
\* returns, the rest of the loop's turn with its sleep
TimedExtractAttempt ==
    /\ spc = "extract"
    /\ business_urls[url_idx] \notin DOMAIN business_cache
    /\ business_urls[url_idx] \notin failed_urls
    /\ attempt < max_retries
    /\ \E p \in _is_browser_connected(driver) :
          IF p.ok
          THEN \E w \in ExtractionWorker :
                  ExtractWorked(w, business_urls[url_idx], PageRecordAt(url_idx))
          ELSE ExtractProbed(p, business_urls[url_idx])
    /\ pause' = IF spc' = "loop"
                THEN [ms |-> ExtractionDelay(consecutive_failures'),
                      calls |-> pause.calls + 1]
                ELSE pause
    /\ UNCHANGED <<retry_on_failure, max_businesses>>
    /\ UNCHANGED <<leads_vars, filter_vars, page, closes, cpc, worker_threads,
                   attempt_log, scroll, search_sleeps, gui>>

NextPause ==
    \/ LoopProbe
    \/ LoopDone
    \/ TimedExtractAttempt

SpecPause == LoopStarted /\ [][NextPause]_vars

(***************************************************************************)
(* One call of scrape_businesses to its end. The code is sequential: while *)
(* every engine call returns or raises, the statement the call stands at   *)
(* is executed, which is weak fairness of the call's steps.                *)
(***************************************************************************)

\* The listings the call is asked for
RunBusinesses == 2

\* scrape_businesses(keyword, city, RunBusinesses) is called on a new instance
RunCalled ==
    /\ driver = "live"
    /\ wait = "set"
    /\ page = NoPage
    /\ closes = 0
    /\ cpc = "idle"
    /\ worker_threads = 0
    /\ attempt_log = NoAttempt
    /\ StepsQuiet
    /\ consecutive_failures = 0
    /\ session_restarts = 0
    /\ business_cache = <<>>
    /\ failed_urls = {}
    /\ spc = "search"
    /\ retry_on_failure = TRUE
    /\ max_businesses = RunBusinesses
    /\ attempt = 0
    /\ business_urls = <<>>
    /\ url_idx = 1
    /\ all_business_data = <<>>
    /\ scrape_result = <<>>
    /\ lpc = "start"
    /\ leads_result = NoLeads
    /\ filter = BusinessFilter_init
    /\ businesses = <<>>
    /\ idx = 1
    /\ all_analysis = <<>>
    /\ qualified_leads = <<>>
    /\ fpc = "idle"
    /\ filter_result = NoResult
    /\ first_analysis = <<>>

NextRun ==
    \/ SearchAttempt
    \/ ListingAttempt
    \/ ListingScroll
    \/ LoopProbe
    \/ LoopDone
    \/ ExtractCached
    \/ ExtractSkipped
    \/ ExtractAttempt
    \/ BodyRaises
    \/ ScrapeExcept

SpecRun == RunCalled /\ [][NextRun]_vars

SpecRunFair == SpecRun /\ WF_vars(NextRun)

(***************************************************************************)
(* The GUI (main.py). gui.scraper is 0 for None, else the number of the    *)
(* search whose thread built the LeadScraper; gui.threads holds, for each  *)
(* thread start_search started, where run_search stands, whether the       *)
(* browser could be started for it and whether it called find_leads;       *)
(* gui.queued counts the search_completed callbacks run_search has handed  *)
(* to the main loop; gui.closed holds <<k, s>> when thread k (0: the main  *)
(* thread) closed the scraper of search s.                                 *)
(***************************************************************************)

\* The searches a user starts
MaxSearches == 3

\* LeadScraper.__init__(self, headless=False): its keyword parameters
LeadScraperParameters == {"headless"}

\* run_search: the keywords of LeadScraper(headless=True, progress_callback=...)
RunSearchKeywords == {"headless", "progress_callback"}

\* LeadScraper(**keywords): a TypeError for a keyword the constructor does not
\* have; else GoogleMapsScraper.__init__ runs setup_driver, which raises when
\* the browser cannot be started
LeadScraper_init(keywords, browser) ==
    IF keywords \subseteq LeadScraperParameters /\ browser THEN "built" ELSE "raised"

\* The threads of run_search that have not ended
Running == {k \in 1..Len(gui.threads) : gui.threads[k].pc # "ended"}

\* search_completed: is_searching = False, the buttons reset
search_completed(g) ==
    [g EXCEPT !.is_searching = FALSE, !.search_button = "normal",
              !.stop_button = "disabled"]

\* start_search, a click on the enabled search button, the inputs valid or
\* not, the browser startable or not for the thread it starts
StartSearch ==
    /\ gui.search_button = "normal"
    /\ Len(gui.threads) < MaxSearches
    /\ \E valid \in BOOLEAN, browser \in BOOLEAN :
          gui' = IF valid /\ ~gui.is_searching
                 THEN [gui EXCEPT !.is_searching = TRUE,
                                  !.search_button = "disabled",
                                  !.stop_button = "normal",
                                  !.threads = Append(@, [pc |-> "try", browser |-> browser,
                                                         found |-> FALSE])]
                 ELSE gui
    /\ UNCHANGED <<filter_vars, scraper_vars, leads_vars, page, closes, cpc,
                   worker_threads, attempt_log, scroll, search_sleeps, pause>>

\* run_search, its try block: the LeadScraper is built and find_leads called,
\* or the constructor raises and the method returns
RunSearchTry(k) ==
    /\ k \in Running
    /\ gui.threads[k].pc = "try"
    /\ gui' = IF LeadScraper_init(RunSearchKeywords, gui.threads[k].browser) = "built"
              THEN [gui EXCEPT !.scraper = k, !.threads[k].found = TRUE,
                               !.threads[k].pc = "finally"]
              ELSE [gui EXCEPT !.threads[k].pc = "finally"]
    /\ UNCHANGED <<filter_vars, scraper_vars, leads_vars, page, closes, cpc,
                   worker_threads, attempt_log, scroll, search_sleeps, pause>>

\* run_search, its finally block: self.scraper is closed if there is one, and
\* search_completed handed to the main loop
RunSearchFinally(k) ==
    /\ k \in Running
    /\ gui.threads[k].pc = "finally"
    /\ gui' = [gui EXCEPT !.threads[k].pc = "ended",
                          !.queued = @ + 1,
                          !.closed = IF gui.scraper # 0
                                     THEN @ \cup {<<k, gui.scraper>>} ELSE @]
    /\ UNCHANGED <<filter_vars, scraper_vars, leads_vars, page, closes, cpc,
                   worker_threads, attempt_log, scroll, search_sleeps, pause>>

\* The main loop runs a queued search_completed
SearchCompleted ==
    /\ gui.queued > 0
    /\ gui' = [search_completed(gui) EXCEPT !.queued = @ - 1]
    /\ UNCHANGED <<filter_vars, scraper_vars, leads_vars, page, closes, cpc,
                   worker_threads, attempt_log, scroll, search_sleeps, pause>>

\* stop_search, a click on the enabled stop button
StopSearch ==
    /\ gui.stop_button = "normal"
    /\ gui' = [search_completed(gui) EXCEPT
                  !.closed = IF gui.scraper # 0 THEN @ \cup {<<0, gui.scraper>>} ELSE @]
    /\ UNCHANGED <<filter_vars, scraper_vars, leads_vars, page, closes, cpc,
                   worker_threads, attempt_log, scroll, search_sleeps, pause>>

NextGui ==
    \/ StartSearch
    \/ \E k \in 1..MaxSearches : RunSearchTry(k)
    \/ \E k \in 1..MaxSearches : RunSearchFinally(k)
    \/ SearchCompleted
    \/ StopSearch

\* The GUI has been built; no LeadScraper exists yet
GuiStarted ==
    /\ driver = "none"
    /\ wait = "none"
    /\ page = NoPage
    /\ closes = 0
    /\ cpc = "idle"
    /\ worker_threads = 0
    /\ attempt_log = NoAttempt
    /\ StepsQuiet
    /\ consecutive_failures = 0
    /\ session_restarts = 0
    /\ business_cache = <<>>
    /\ failed_urls = {}
    /\ spc = "idle"
    /\ retry_on_failure = TRUE
    /\ max_businesses = default_max_businesses
    /\ attempt = 0
    /\ business_urls = <<>>
    /\ url_idx = 1
    /\ all_business_data = <<>>
    /\ scrape_result = <<>>
    /\ lpc = "start"
    /\ leads_result = NoLeads
    /\ filter = BusinessFilter_init
    /\ businesses = <<>>
    /\ idx = 1
    /\ all_analysis = <<>>
    /\ qualified_leads = <<>>
    /\ fpc = "idle"
    /\ filter_result = NoResult
    /\ first_analysis = <<>>

SpecGui == GuiStarted /\ [][NextGui]_vars

(***************************************************************************)
(* The classifier's properties. all_analysis[k] is the Analysis that       *)
(* filter_businesses built for businesses[k].                              *)
(***************************************************************************)

Analysed == 1..Len(all_analysis)

\* The records whose website's domain holds one of the given names
SiteOn(names) ==
    {r \in ListingRecords :
        /\ Strip(r.website) # ""
        /\ ~urlparse_raises(NormalizeWebsite(r.website))
        /\ AnyIn(names, DomainOf(NormalizeWebsite(r.website)))}

FacebookRecords == SiteOn(<<"facebook.com">>)

\* A reason saying that the business uses a platform instead of a website
SaysUsesPlatform(reason) ==
    Contains("uses ", Lower(reason)) /\ Contains("instead of", Lower(reason))

\* An Analysis carrying a booking signal: a booking platform's site, or a
\* booking keyword in one of the record's fields
BookingSignal(analysis) ==
    \/ analysis.squarespace_found
    \/ analysis.booksy_found
    \/ analysis.other_booking_found

\* C1: every record whose website classifies as real_website is not qualified,
\* with the reason "has established website", whatever Instagram or booking
\* signals its fields carry.
C1_RealWebsiteNotQualified ==
    \A k \in Analysed :
        all_analysis[k].website_type = "real_website" =>
            /\ ~all_analysis[k].is_qualified_lead
            /\ Lower(all_analysis[k].qualification_reason) = "has established website"

\* C1's case: a record with a real website whose name and description carry an
\* Instagram signal and a booking keyword has been classified.
C1_Witness ==
    \E k \in Analysed :
        /\ all_analysis[k].website_type = "real_website"
        /\ all_analysis[k].instagram_found
        /\ all_analysis[k].squarespace_found

C3_InstagramQualified ==
    \A k \in Analysed :
        all_analysis[k].website_type = "instagram" =>
            /\ all_analysis[k].is_qualified_lead
            /\ Contains("instagram", Lower(all_analysis[k].qualification_reason))

\* C3's case: a record with an Instagram URL and a booking keyword in its
\* description has been classified.
C3_Witness ==
    \E k \in Analysed :
        /\ all_analysis[k].website_type = "instagram"
        /\ all_analysis[k].booksy_found

MatchesNoRule(k) ==
    /\ all_analysis[k].website_type \notin
          {"real_website", "none", "instagram", "booksy_booking",
           "squarespace_booking"}
    /\ businesses[k] \notin FacebookRecords

WebsiteTypes ==
    {"none", "google", "instagram", "social_media", "real_website"}
    \cup {BusinessFilter_init.booking_platforms[p].platform \o "_booking" :
             p \in 1..Len(BusinessFilter_init.booking_platforms)}

PageRecords == {PageRecord[u] : u \in DOMAIN PageRecord}

\* C10: neither scrape_businesses nor find_leads propagates an exception to
\* its caller, whatever the browser engine does during search, listing or
\* extraction. A call of scrape_businesses that is over has returned a list of
\* records, possibly empty, and a call of find_leads that is over has returned
\* a result structure whose total_scraped counts its raw_businesses.
C10_NeverPropagates ==
    /\ spc # "raised"
    /\ spc = "returned" => scrape_result \in Seq(PageRecords)
    /\ lpc \in {"start", "scraping", "filtering", "returned"}
    /\ lpc = "returned" =>
          /\ leads_result.raw_businesses \in Seq(PageRecords)
          /\ leads_result.total_scraped = Len(leads_result.raw_businesses)

\* C10 witness: find_leads has returned the empty structure after the try
\* block of scrape_businesses raised and, in its handler, close() ran and
\* setup_driver raised without starting a browser
C10_Witness ==
    /\ lpc = "returned"
    /\ spc = "returned"
    /\ driver = "none"
    /\ leads_result = _empty_result

(***************************************************************************)
(* C11                                                                     *)
(***************************************************************************)

\* The records of the list scrape_businesses returned
ReturnedRecords == {scrape_result[k] : k \in 1..Len(scrape_result)}

\* C11: when a run of scrape_businesses ends, early or not, the list it
\* returns holds every record extracted during the run; no record already
\* collected is dropped. The records extracted during the run are those of
\* business_cache, the instance having made no run before this one.
C11_Original ==
    (lpc = "scraping" /\ spc = "returned") =>
        \A u \in DOMAIN business_cache : business_cache[u] \in ReturnedRecords

(***************************************************************************)
(* C12                                                                     *)
(***************************************************************************)

\* The URLs of the records of a list, in its order
UrlsOf(records) == [k \in 1..Len(records) |-> records[k].url]

\* C12: in a run over 5 listing URLs whose session is lost during the 2nd
\* extraction, scrape_businesses returns records for all 5 URLs when the
\* session was restarted, and the records extracted before the fault when the
\* restart budget was spent: that of the 1st URL, with that of the 2nd when
\* its name had been read before the session went (the claim counts 1; the
\* statement lets the 2nd pass).
C12_Original ==
    [][(/\ spc = "loop"
        /\ spc' = "returned"
        /\ Len(business_urls) = 5
        /\ Faulted)
       => IF session_restarts < max_session_restarts
          THEN UrlsOf(scrape_result') = business_urls
          ELSE UrlsOf(scrape_result') \in
                  {SubSeq(business_urls, 1, FaultAt - 1),
                   SubSeq(business_urls, 1, FaultAt)}]_vars

\* C13: the extraction loop never calls extract_business_data on a further URL
\* while consecutive_failures is at or above max_consecutive_failures: at the
\* cap the manager restarts the session, which resets the counter, or halts.
C13_Original ==
    spc = "extract" => consecutive_failures < max_consecutive_failures

C15_NoDuplicateUrl ==
    /\ \A i, j \in 1..Len(scrape_result) :
          scrape_result[i].url = scrape_result[j].url => i = j
    /\ \A i, j \in 1..Len(all_business_data) :
          all_business_data[i].url = all_business_data[j].url => i = j

\* A run has returned the records of every listing of the feed it was allowed
\* to take, each of which showed its link twice
C15_Witness ==
    /\ spc = "returned"
    /\ Len(scrape_result) = MaxBusinesses
    /\ UrlsOf(scrape_result) = PageLinks(MaxBusinesses)

\* extract_business_data(url) is running
Extracting(url) == spc = "extract" /\ business_urls[url_idx] = url

\* C16: a record that extract_business_data has returned for a URL stays in
\* the cache unchanged, and a later call for that URL returns it to the loop
\* with the session, the restart counter, the retry counter, the cache and the
\* failure list untouched; a URL whose record is cached is not extracted again.
C16_CachedNotReextracted ==
    [][\A u \in DOMAIN business_cache :
          /\ u \in DOMAIN business_cache'
          /\ business_cache'[u] = business_cache[u]
          /\ (Extracting(u) /\ spc' # "except") =>
                /\ spc' = "loop"
                /\ all_business_data' = Append(all_business_data, business_cache[u])
                /\ driver' = driver
                /\ session_restarts' = session_restarts
                /\ attempt' = attempt
                /\ failed_urls' = failed_urls
                /\ business_cache' = business_cache]_vars

\* The nested call has taken the first record from the cache and is called for
\* the second URL, whose record is cached too
C16_Witness ==
    /\ retry_on_failure = FALSE
    /\ url_idx = 2
    /\ Len(business_urls) >= 2
    /\ Extracting(business_urls[2])
    /\ {business_urls[1], business_urls[2]} \subseteq DOMAIN business_cache
    /\ all_business_data = <<business_cache[business_urls[1]]>>

\* C17: when extract_business_data returns None for a URL, the URL is on the
\* failure list; it stays there, never enters the cache, and a later call for
\* it, in the same pass or in the nested call after a full retry, returns None
\* to the loop with the session, the restart counter, the retry counter, the
\* cache and the failure list untouched.
C17_FailedSkipped ==
    [][/\ (spc = "extract" /\ spc' = "loop" /\ all_business_data' = all_business_data)
            => business_urls[url_idx] \in failed_urls'
       /\ \A u \in failed_urls :
             /\ u \in failed_urls'
             /\ u \notin DOMAIN business_cache'
             /\ (Extracting(u) /\ spc' # "except") =>
                   /\ spc' = "loop"
                   /\ all_business_data' = all_business_data
                   /\ driver' = driver
                   /\ session_restarts' = session_restarts
                   /\ attempt' = attempt
                   /\ failed_urls' = failed_urls
                   /\ business_cache' = business_cache]_vars

\* After a full retry the nested call has skipped the first URL, which the
\* first pass gave up, and is called for the second, given up too
C17_Witness ==
    /\ retry_on_failure = FALSE
    /\ session_restarts > 0
    /\ url_idx = 2
    /\ Len(business_urls) >= 2
    /\ Extracting(business_urls[2])
    /\ {business_urls[1], business_urls[2]} \subseteq failed_urls
    /\ all_business_data = <<>>

\* A locator of the name found an element whose text is not blank
NameRead(pg) ==
    \E k \in 1..Len(pg.name) :
        pg.name[k].found /\ Strip(TextOf(pg.name[k])) # ""

\* Every lookup of the field raised
LocatorsFail(found) == \A k \in 1..Len(found) : ~found[k].found

\* The fields of the record r that must be empty: those whose locators all
\* failed on pg (for the phone, the fallback having found no number either)
FailedFieldsEmpty(r, pg) ==
    /\ (LocatorsFail(pg.phone) /\ pg.body \in {NoElement, Body(<<>>)}) => r.phone = ""
    /\ LocatorsFail(pg.address) => r.address = ""
    /\ LocatorsFail(pg.website) => r.website = ""

\* The records extract_business_data has returned to the loop or cached
Extracted ==
    {all_business_data[k] : k \in 1..Len(all_business_data)}
        \cup {scrape_result[k] : k \in 1..Len(scrape_result)}
        \cup {business_cache[u] : u \in DOMAIN business_cache}

C19_CloseClears ==
    [][closes' # closes => (driver' = "none" /\ wait' = "none" /\ cpc' = "returned")]_vars

\* close() has returned for the second time, on a session that was started
\* after its first call
C19_Witness ==
    /\ closes = MaxCloses
    /\ session_restarts > 0
    /\ cpc = "returned"
    /\ driver = "none"
    /\ wait = "none"

\* C20 as stated: once close() has returned during the run, the manager holds
\* no browser session again (none is started), and the run does not raise.
C20_Original == closes > 0 => (driver = "none" /\ spc # "raised")

\* C21 as stated: while an extraction thread that exceeded its timeout is
\* still running, the main flow makes no step that calls the engine.
C21_Original == [][worker_threads > 0 => ~MainFlowEngineCall]_vars

IsQualified(analysis) == analysis.is_qualified_lead

\* C22: all_analysis holds one Analysis per record handled, in the order of
\* the batch, and qualified_leads is the subsequence of all_analysis whose
\* is_qualified_lead is true, during the loop and in the dict returned.
C22_QualifiedInOrder ==
    /\ Len(all_analysis) = idx - 1
    /\ \A k \in 1..Len(all_analysis) :
          all_analysis[k] = analyze_business(filter, businesses[k])
    /\ qualified_leads = SelectSeq(all_analysis, IsQualified)
    /\ fpc = "done" =>
          /\ filter_result.all_analysis = all_analysis
          /\ filter_result.qualified_leads = SelectSeq(all_analysis, IsQualified)

\* The five records have been filtered: the third of the batch is the second
\* of the four leads
C22_Witness ==
    /\ fpc = "done"
    /\ businesses = FiveRecords
    /\ Len(filter_result.qualified_leads) = 4
    /\ ~filter_result.all_analysis[2].is_qualified_lead
    /\ filter_result.qualified_leads[2] = filter_result.all_analysis[3]

C24_Counts ==
    fpc = "done" =>
        /\ filter_result.total_businesses = Len(businesses)
        /\ filter_result.qualified_count = Len(filter_result.qualified_leads)
        /\ filter_result.qualified_count =
              Cardinality({k \in 1..Len(filter_result.all_analysis) :
                              filter_result.all_analysis[k].is_qualified_lead})
        /\ filter_result.qualification_rate.den > 0
        /\ IF businesses = <<>>
           THEN filter_result.qualification_rate.num = 0
           ELSE filter_result.qualification_rate.num * filter_result.total_businesses
                    = 100 * filter_result.qualified_count
                          * filter_result.qualification_rate.den
        /\ businesses = FiveRecords =>
              /\ filter_result.qualified_count = 4
              /\ filter_result.qualification_rate.num
                     = 80 * filter_result.qualification_rate.den

\* The batch of five with four qualifying has been filtered
C24_Witness ==
    /\ fpc = "done"
    /\ businesses = FiveRecords
    /\ filter_result.total_businesses = 5
    /\ filter_result.qualified_count = 4
    /\ filter_result.qualification_rate = [num |-> 400, den |-> 5]

\* What .get(key, '') reads in the record r
FieldOrEmpty(r, key) == IF key \in DOMAIN r THEN r[key] ELSE ""

\* The keys under which .get(key, '') reads '' in the record r
EmptyKeys(r) == {key \in RecordKeys : FieldOrEmpty(r, key) = ""}

\* C25: whatever fields a record lacks or holds empty, filter_businesses goes
\* through the whole batch and returns one Analysis per input record, the
\* Analysis of a record holding '' for each field the record lacks.
C25_IncompleteTolerated ==
    /\ fpc = "done" => Len(filter_result.all_analysis) = Len(businesses)
    /\ \A k \in 1..Len(all_analysis) :
          /\ all_analysis[k].business_name = FieldOrEmpty(businesses[k], "name")
          /\ all_analysis[k].phone = FieldOrEmpty(businesses[k], "phone")
          /\ all_analysis[k].address = FieldOrEmpty(businesses[k], "address")
          /\ all_analysis[k].original_website = FieldOrEmpty(businesses[k], "website")
          /\ all_analysis[k].description = FieldOrEmpty(businesses[k], "description")
          /\ all_analysis[k].url = FieldOrEmpty(businesses[k], "url")
          /\ all_analysis[k].is_qualified_lead \in BOOLEAN
          /\ businesses[k] \in IncompleteRecords =>
                all_analysis[k] =
                    analyze_business(filter, Blanked(FullRecord, EmptyKeys(businesses[k])))

\* A record that lacks its website and its description has been analysed, and
\* the record after it as well
C25_Witness ==
    /\ fpc = "done"
    /\ Len(businesses) = 2
    /\ businesses[1] = Lacking(FullRecord, {"website", "description"})
    /\ Len(filter_result.all_analysis) = 2
    /\ filter_result.all_analysis[1].original_website = ""
    /\ filter_result.all_analysis[2].business_name = "Big Ink Tattoo"

\* C26: search_google_maps makes at most max_retries = 3 attempts, each step
\* of its loop using one; it returns True (scrape_businesses goes on to the
\* listings) only from an attempt whose page showed the feed or a place link;
\* and it returns False (scrape_businesses returns []) from the third attempt
\* only, which always ends the search.
C26_ThreeAttempts ==
    /\ [](spc = "search" => attempt \in 0..(max_retries - 1))
    /\ [][spc = "search" =>
            /\ spc' = "search" => attempt' = attempt + 1
            /\ spc' = "listings" => (page' # NoPage /\ ResultsShown(page'))
            /\ spc' = "returned" => (attempt = max_retries - 1 /\ scrape_result' = <<>>)
            /\ attempt = max_retries - 1 => spc' \in {"listings", "returned"}]_vars

\* The third attempt is about to start: one attempt went to a page without
\* results, the other to a lost session that was restarted
C26_Witness ==
    /\ spc = "search"
    /\ attempt = max_retries - 1
    /\ session_restarts = 1
    /\ page # NoPage
    /\ ~(page.feed \/ page.place_link)

\* The place of a link among the links of the results page
Position(url) == CHOOSE k \in 1..MaxUrls : PageUrls[k] = url

\* C27: the list scrape_businesses returns to find_leads holds at most
\* max_businesses records, each with the URL of one of the first
\* max_businesses links of the results page, in the order of the page; and
\* the loop never runs over more than max_businesses links.
C27_AtMostMax ==
    /\ (lpc = "scraping" /\ spc \in {"loop", "extract"}) =>
          Len(business_urls) <= max_businesses
    /\ (lpc = "scraping" /\ spc = "returned") =>
          /\ Len(scrape_result) <= max_businesses
          /\ \A i \in 1..Len(scrape_result) :
                \E k \in 1..MaxUrls :
                    k <= max_businesses /\ scrape_result[i].url = PageUrls[k]
          /\ \A i, j \in 1..Len(scrape_result) :
                i < j => Position(scrape_result[i].url) < Position(scrape_result[j].url)

\* A run allowed three listings has returned the first and the third, the
\* second having failed
C27_Witness ==
    /\ lpc = "scraping"
    /\ spc = "returned"
    /\ max_businesses = 3
    /\ UrlsOf(scrape_result) = <<PlaceUrl(1), PlaceUrl(3)>>

DecimalDigits == {"0", "1", "2", "3", "4", "5", "6", "7", "8", "9"}

\* s is of the shape (XXX) XXX-XXXX
PhoneShaped(s) ==
    /\ Len(s) = 14
    /\ At(s, 1) = "(" /\ At(s, 5) = ")" /\ At(s, 6) = " " /\ At(s, 10) = "-"
    /\ \A i \in {2, 3, 4, 7, 8, 9, 11, 12, 13, 14} : At(s, i) \in DecimalDigits

\* C28 as stated: the phone of every record returned or cached is of the
\* shape (XXX) XXX-XXXX or is '' (not available).
C28_Original == \A r \in Extracted : r.phone = "" \/ PhoneShaped(r.phone)

\* C29 as stated: a turn of the loop whose connectivity check failed before
\* the extraction of a link and whose session restart succeeded leaves the loop
\* at that link, which is extracted next.
C29_Original ==
    [][(/\ spc = "loop"
        /\ spc' = "loop"
        /\ session_restarts' = session_restarts + 1
        /\ driver' = "live")
          => url_idx' = url_idx]_vars

C32_FirstSeenOrder ==
    /\ [](\A i, j \in 1..Len(business_urls) : business_urls[i] = business_urls[j] => i = j)
    /\ [][(spc = "scroll" /\ spc' = "loop") =>
            /\ Len(business_urls') >= Len(business_urls)
            /\ SubSeq(business_urls', 1, Len(business_urls)) = business_urls]_vars

\* Listing 1 was read first; after scrolling the feed showed listings 3, 2, 1
C32_Witness ==
    /\ spc = "loop"
    /\ scroll.pc = "done"
    /\ business_urls = <<PlaceUrl(1), PlaceUrl(3), PlaceUrl(2)>>

\* C33 as stated: when search_google_maps slept before its 2nd and before its
\* 3rd attempt, the second sleep is strictly longer than the first.
C33_Original ==
    (Len(search_sleeps) = 2 /\ search_sleeps[1] > 0 /\ search_sleeps[2] > 0)
        => search_sleeps[2] > search_sleeps[1]

\* C34: every return of extract_business_data in the loop is followed by a
\* sleep before the next listing is taken: 0.3 s when the call succeeded
\* (consecutive_failures = 0), else min(0.5 + 0.2 x consecutive_failures,
\* 2.0) s; the sleep never shrinks as the failures grow, never exceeds 2.0 s,
\* and is 0.3 s again after the next success.
C34_ProgressiveDelay ==
    /\ [](pause.ms <= 2000)
    /\ [][(spc = "extract" /\ spc' = "loop") =>
            /\ pause'.calls = pause.calls + 1
            /\ Len(all_business_data') > Len(all_business_data) =>
                  (consecutive_failures' = 0 /\ pause'.ms = 300)
            /\ Len(all_business_data') = Len(all_business_data) =>
                  /\ consecutive_failures' = consecutive_failures + 1
                  /\ pause'.ms >= 700
                  /\ (500 + 200 * consecutive_failures' <= 2000
                        => pause'.ms = 500 + 200 * consecutive_failures')
                  /\ (500 + 200 * consecutive_failures' > 2000 => pause'.ms = 2000)
                  /\ \A n \in 1..consecutive_failures' :
                        pause'.ms >= IF n < 8 THEN 500 + 200 * n ELSE 2000]_vars

\* Eight extractions in a row failed, and the loop slept its 2.0 s
C34_Witness ==
    /\ spc = "loop"
    /\ consecutive_failures = 8
    /\ pause = [ms |-> 2000, calls |-> 8]

\* C35: one call of extract_business_data makes at most 3 attempts, each with
\* at most one navigation: the attempts are numbered 0, 1, 2, each failed
\* attempt is followed by the next one or by the return, and the third
\* attempt ends the call whatever it met.
C35_ThreeExtractions ==
    /\ [](spc = "extract" => attempt \in 0..(max_retries - 1))
    /\ [][spc = "extract" =>
            \/ spc' = "extract" /\ attempt' = attempt + 1 /\ url_idx' = url_idx
            \/ spc' # "extract"]_vars
    /\ [][(spc = "extract" /\ attempt = max_retries - 1) =>
            (spc' = "loop" /\ url_idx' = url_idx + 1)]_vars

\* A call gave up after its third attempt, the session alive and never
\* restarted: its link is in failed_urls and no record was added
C35_Witness ==
    /\ spc = "loop"
    /\ url_idx = 2
    /\ failed_urls = {business_urls[1]}
    /\ all_business_data = <<>>
    /\ session_restarts = 0
    /\ driver = "live"

\* C36: no URL is both in business_cache and in failed_urls; and when
\* extract_business_data(url) returns, url is in business_cache exactly when
\* a record was returned and in failed_urls exactly when None was.
C36_CacheOrFailed ==
    /\ [](DOMAIN business_cache \cap failed_urls = {})
    /\ [][(spc = "extract" /\ spc' = "loop") =>
            /\ (business_urls[url_idx] \in DOMAIN business_cache')
                  <=> (Len(all_business_data') = Len(all_business_data) + 1)
            /\ (business_urls[url_idx] \in failed_urls')
                  <=> (all_business_data' = all_business_data)
            /\ (business_urls[url_idx] \in DOMAIN business_cache') =>
                  all_business_data'[Len(all_business_data')]
                      = business_cache'[business_urls[url_idx]]]_vars

\* One call has returned a record and another None
C36_Witness ==
    /\ spc = "loop"
    /\ url_idx = 3
    /\ DOMAIN business_cache = {business_urls[2]}
    /\ failed_urls = {business_urls[1]}
    /\ Len(all_business_data) = 1

\* C37: every call of scrape_businesses ends; within a pass the loop never
\* goes back to a listing it has left; and the handler starts a nested pass
\* only from a call made with retry_on_failure, the nested call being made
\* without it, so that no second nested pass follows.
C37_Terminates ==
    /\ <>(spc \in {"returned", "raised"})
    /\ [][(spc \in {"loop", "extract"} /\ spc' \in {"loop", "extract"}) =>
            url_idx' \in {url_idx, url_idx + 1}]_vars
    /\ [][(spc = "except" /\ spc' = "search") =>
            (retry_on_failure /\ ~retry_on_failure')]_vars
    /\ [][~retry_on_failure => ~retry_on_failure']_vars

\* The nested pass made after an unexpected error has returned its records
C37_Witness ==
    /\ spc = "returned"
    /\ ~retry_on_failure
    /\ session_restarts = 1
    /\ Len(scrape_result) = 2

\* C38 as stated: at most one thread of run_search is running at any time,
\* and a thread never closes the scraper of a search started after its own.
C38_Original ==
    /\ \A j, k \in Running : j = k
    /\ \A c \in gui.closed : c[1] = 0 \/ c[2] <= c[1]

\* C39 as stated: a thread of run_search for which the browser could be
\* started has called find_leads by the time it ends.
C39_Original ==
    \A k \in 1..Len(gui.threads) :
        (gui.threads[k].pc = "ended" /\ gui.threads[k].browser) => gui.threads[k].found

\* The reasons with which a record is qualified
QualifyingReasons ==
    {"No online presence - prime candidate",
     "Instagram-only presence",
     "Uses booking platform instead of website"}

\* The reasons with which a record is not
DisqualifyingReasons ==
    {"Has established website",
     "Uses social media platform (non-Instagram)",
     "Has sufficient online presence"}

\* C40: the qualification_reason of every Analysis is one of six fixed,
\* non-empty texts, and the Analysis is a qualified lead exactly when its
\* reason is one of the three qualifying ones.
C40_ReasonDecidesVerdict ==
    \A k \in Analysed :
        /\ all_analysis[k].qualification_reason # ""
        /\ all_analysis[k].qualification_reason
              \in QualifyingReasons \cup DisqualifyingReasons
        /\ all_analysis[k].is_qualified_lead
              <=> all_analysis[k].qualification_reason \in QualifyingReasons

\* A batch with a lead qualified for its booking platform and a record left
\* out by the default rule
C40_Witness ==
    \E j, k \in Analysed :
        /\ all_analysis[j].is_qualified_lead
        /\ all_analysis[j].qualification_reason = "Uses booking platform instead of website"
        /\ ~all_analysis[k].is_qualified_lead
        /\ all_analysis[k].qualification_reason = "Has sufficient online presence"

====
